---- MODULE Spec2Model ----
(***************************************************************************)
(* Model of the AI Smart Bookmark Organizer core: the batch dispatcher     *)
(* (getOrganizeSuggestions), the snapshot store and restore engine         *)
(* (createSnapshot, restoreSnapshot) and the batch-organize workflow       *)
(* (BatchOrganize.tsx), each written from the TypeScript source.           *)
(***************************************************************************)
EXTENDS Integers, Sequences, FiniteSets, TLC

(***************************************************************************)
(* Bounds of the model and constants of the program.                       *)
(***************************************************************************)

\* aiService.ts:323  const batchSize = 20;
batchSize == 20

\* Largest number of bookmarks handed to the dispatcher (three groups).
MaxBookmarks == 41

\* Category names the classifier may answer with.
Categories == {"Tech", "News"}

\* The value of a field that is missing from a parsed JSON item.
Undefined == "undefined"

\* A null element of a parsed JSON array.
Null == [null |-> TRUE]

(***************************************************************************)
(* Generic helpers.                                                        *)
(***************************************************************************)

Min(a, b) == IF a < b THEN a ELSE b

\* Array.prototype.slice(from, to) with 0-based, end-exclusive indices.
Slice(s, from, to) ==
    LET hi == Min(to, Len(s))
    IN  IF from >= hi THEN << >> ELSE SubSeq(s, from + 1, hi)

RECURSIVE Concat(_)
Concat(ss) == IF ss = << >> THEN << >> ELSE Head(ss) \o Concat(Tail(ss))

Range(s) == {s[k] : k \in 1..Len(s)}

(***************************************************************************)
(* State.                                                                  *)
(***************************************************************************)

\* The batch dispatcher, getOrganizeSuggestions.
VARIABLES
    gosPc,        \* position of the async function: idle, loop, await, done
    bookmarks,    \* the bookmarks argument (ids, in input order)
    batches,      \* the groups built by the first loop
    batchIdx,     \* the loop variable i of the second loop (0-based)
    results,      \* the Map id -> {category, isNewCategory}
    aiCalls,      \* the groups handed to callAI so far, in order of issue
    inflight,     \* number of callAI promises not yet settled
    progressLog,  \* the (current, total) pairs passed to onProgress
    failedGroups  \* indices of the groups whose call threw or was malformed

dvars == <<gosPc, bookmarks, batches, batchIdx, results, aiCalls, inflight,
           progressLog, failedGroups>>

\* The browser's bookmarks, the clock, the IndexedDB stores and the history
\* page.
VARIABLES
    live,          \* the browser's bookmark tree
    nextId,        \* the id the browser gives to the next created node
    now,           \* Date.now()
    snapshots,     \* IndexedDB store 'snapshots': id -> BookmarkSnapshot
    logs,          \* IndexedDB store 'logs': id -> OperationLog
    ops,           \* number of operations run so far
    lastOp         \* the rollback that has just run, if one has: the id it
                   \* was given, its outcome, the browser calls it issued,
                   \* in order, and the messages the page shows after it

tvars == <<live, nextId, now, snapshots, logs, ops, lastOp>>

\* The BatchOrganize component.
VARIABLES
    currentStep,      \* 'select' | 'analyze' | 'processing' | 'preview' | 'complete'
    selectedIds,      \* ids ticked in the tree of the select step
    processing,       \* the component's processing flag
    organizeResults,  \* the OrganizeResult list shown in the preview
    error,            \* whether the component shows an error message
    tree,             \* the tree as the component holds it (useBookmarkTree)
    runSnapshot       \* id of the snapshot the current run has stored, 0 if
                      \* it has stored none

ovars == <<currentStep, selectedIds, processing, organizeResults, error, tree,
           runSnapshot>>

\* The tag store and the calls of addTagsToBookmark in progress.
VARIABLES
    tags,         \* IndexedDB store 'tags': id -> Tag
    tagSeq,       \* the number that makes the next new tag's id and createdAt
    addPc,        \* position of each call of addTagsToBookmark: idle, loop, write
    addArg,       \* its bookmarkId, the names still to handle, the tag it found
    tagOps,       \* number of calls of the tag operations so far
    lastTagOp     \* the removeTagFromBookmark or deleteTag that has just run,
                  \* or the rejected write of an addTagsToBookmark

gvars == <<tags, tagSeq, addPc, addArg, tagOps, lastTagOp>>

\* The options page: what its last render computed from the tree.
VARIABLES
    optionsView   \* the tree of the last render (empty before the hook has
                  \* loaded it) and bookmarkStats, allFolders, allBookmarks

vvars == <<optionsView>>

\* The CleanMaster component.
VARIABLES
    cleanTree,              \* the tree as the component holds it, empty
                            \* before the hook has loaded it
    brokenLinks,            \* ids of the bookmarks the last scan found broken
    selectedBrokenIds,      \* the ticked ones, in the order of the ticks
    duplicates,             \* the groups of the last scan: url and bookmark ids
    selectedDuplicateUrls,  \* urls of the ticked groups, in the order of the ticks
    keepSelections          \* Map url -> id of the bookmark to keep

cvars == <<cleanTree, brokenLinks, selectedBrokenIds, duplicates,
           selectedDuplicateUrls, keepSelections>>

vars == <<dvars, tvars, ovars, gvars, vvars, cvars>>

(***************************************************************************)
(* Batch dispatcher: getOrganizeSuggestions (aiService.ts:314-359).        *)
(***************************************************************************)


\* Off-by-one grouping: every slice takes one bookmark too many.
RECURSIVE MakeBatchesOverlap(_, _)
MakeBatchesOverlap(bms, i) ==
    IF i < Len(bms)
    THEN <<Slice(bms, i, i + batchSize + 1)>> \o MakeBatchesOverlap(bms, i + batchSize)
    ELSE << >>

\* for (let i = 0; i < bookmarks.length; i += batchSize)
\*   batches.push(bookmarks.slice(i, i + batchSize));
RECURSIVE MakeBatches(_, _)
MakeBatches(bms, i) ==
    IF i < Len(bms)
    THEN <<Slice(bms, i, i + batchSize)>> \o MakeBatches(bms, i + batchSize)
    ELSE << >>

\* One well-formed item of a classifier answer.
Item(id, c, n) == [id |-> id, category |-> c, isNewCategory |-> n]

\* An item that lacks the category and isNewCategory fields.
BareItem(id) == [id |-> id, category |-> Undefined, isNewCategory |-> Undefined]

\* The answers callAI may give for one group: a rejected promise, text that
\* is not JSON, JSON that is not an array, a well-formed array, an array
\* with a null element after its first item, an array of items without the
\* category fields.
Responses(batch) ==
    {[kind |-> "throw", items |-> << >>],
     [kind |-> "nonjson", items |-> << >>],
     [kind |-> "nonarray", items |-> << >>]}
    \cup {[kind |-> "array",
           items |-> [k \in 1..Len(batch) |-> Item(batch[k], c, n)]]
            : c \in Categories, n \in BOOLEAN}
    \cup {[kind |-> "nullitem",
           items |-> <<Item(batch[1], c, n), Null>>
                     \o [k \in 1..(Len(batch) - 1) |-> Item(batch[k + 1], c, n)]]
            : c \in Categories, n \in BOOLEAN}
    \cup {[kind |-> "barefields",
           items |-> [k \in 1..Len(batch) |-> BareItem(batch[k])]]}

\* parsed.forEach(item => results.set(item.id, {...})): reading item.id of a
\* null element throws, which ends the forEach with the earlier entries set.
RECURSIVE ForEachSet(_, _)
ForEachSet(res, items) ==
    IF items = << >> THEN res
    ELSE IF Head(items) = Null THEN res
    ELSE LET it == Head(items)
             entry == [category |-> it.category, isNewCategory |-> it.isNewCategory]
             res2 == [x \in DOMAIN res \cup {it.id} |->
                         IF x = it.id THEN entry ELSE res[x]]
         IN  ForEachSet(res2, Tail(items))

\* The try block of the loop body (aiService.ts:334-351).
ProcessResponse(res, resp) ==
    IF resp.kind \in {"throw", "nonjson"} THEN res
    ELSE IF resp.kind = "nonarray" THEN res
    ELSE ForEachSet(res, resp.items)

\* onProgress((i + 1) * batchSize, bookmarks.length)  (aiService.ts:354)
ProgressValue(i, total) == (i + 1) * batchSize

\* A group is failed when its call threw or its answer was malformed.
IsFailure(resp) == resp.kind # "array"

DInit ==
    /\ gosPc = "idle"
    /\ bookmarks = << >>
    /\ batches = << >>
    /\ batchIdx = 0
    /\ results = << >>
    /\ aiCalls = << >>
    /\ inflight = 0
    /\ progressLog = << >>
    /\ failedGroups = {}

\* Entry of getOrganizeSuggestions with n bookmarks (aiService.ts:320-328).
GosStart(n) ==
    /\ gosPc = "idle"
    /\ bookmarks' = [k \in 1..n |-> k]
    /\ batches' = MakeBatches(bookmarks', 0)
    /\ batchIdx' = 0
    /\ results' = << >>
    /\ gosPc' = "loop"
    /\ UNCHANGED <<aiCalls, inflight, progressLog, failedGroups>>
    /\ UNCHANGED <<tvars, ovars, gvars, vvars, cvars>>

\* const response = await callAI(settings, prompt): the call is issued.
GosCallAI ==
    /\ gosPc = "loop"
    /\ batchIdx < Len(batches)
    /\ aiCalls' = Append(aiCalls, batches[batchIdx + 1])
    /\ inflight' = inflight + 1
    /\ gosPc' = "await"
    /\ UNCHANGED <<bookmarks, batches, batchIdx, results, progressLog, failedGroups>>
    /\ UNCHANGED <<tvars, ovars, gvars, vvars, cvars>>

\* The call settles; rest of the loop body (aiService.ts:336-355).
GosResponse(resp) ==
    /\ inflight' = inflight - 1
    /\ results' = ProcessResponse(results, resp)
    /\ failedGroups' = IF IsFailure(resp) THEN failedGroups \cup {batchIdx + 1}
                       ELSE failedGroups
    /\ progressLog' = Append(progressLog, <<ProgressValue(batchIdx, Len(bookmarks)),
                                            Len(bookmarks)>>)
    /\ batchIdx' = batchIdx + 1
    /\ gosPc' = "loop"
    /\ UNCHANGED <<bookmarks, batches, aiCalls>>
    /\ UNCHANGED <<tvars, ovars, gvars, vvars, cvars>>

\* return results
GosReturn ==
    /\ gosPc = "loop"
    /\ batchIdx >= Len(batches)
    /\ gosPc' = "done"
    /\ UNCHANGED <<bookmarks, batches, batchIdx, results, aiCalls, inflight,
                   progressLog, failedGroups>>
    /\ UNCHANGED <<tvars, ovars, gvars, vvars, cvars>>

DNext ==
    \/ \E n \in 0..MaxBookmarks : GosStart(n)
    \/ GosCallAI
    \/ /\ gosPc = "await"
       /\ \E resp \in Responses(batches[batchIdx + 1]) : GosResponse(resp)
    \/ GosReturn


(***************************************************************************)
(* The live bookmark tree, owned by the browser.  A tree is a function     *)
(* from node ids to nodes; a node holds the ids of its children in order.  *)
(* Node 0 is the root, its children 1 (bookmarks bar) and 2 (other) are    *)
(* the system containers.  The browser hands out increasing ids.           *)
(***************************************************************************)

\* Largest value of the clock Date.now().
MaxTime == 2

\* Largest number of operations in one run: the edits the user makes in
\* the browser, the snapshots taken, the rollbacks and the deletions.
MaxOps == 3

RootId == 0
NoUrl == ""
NoType == ""
NoParent == -1
FolderTitles == {"Tech"}
BookmarkLabels == {[title |-> "t1", url |-> "u1"]}


Node(parentId, title, url, folderType) ==
    [parentId |-> parentId, title |-> title, url |-> url,
     children |-> << >>, folderType |-> folderType]

\* The tree of a fresh profile.  Browsers that know the folderType field
\* mark the system containers with it; older ones leave it out.
EmptyTree(withFolderType) ==
    (RootId :> [Node(NoParent, "", NoUrl, NoType) EXCEPT !.children = <<1, 2>>])
    @@ (1 :> Node(RootId, "Bookmarks Bar", NoUrl,
                  IF withFolderType THEN "bookmarks-bar" ELSE NoType))
    @@ (2 :> Node(RootId, "Other Bookmarks", NoUrl,
                  IF withFolderType THEN "other" ELSE NoType))

RECURSIVE Descendants(_, _)
Descendants(t, id) ==
    LET kids == Range(t[id].children)
    IN  kids \cup UNION {Descendants(t, k) : k \in kids}

Remove(s, x) == SelectSeq(s, LAMBDA y : y # x)

\* The machine state threaded through one operation: the tree, the id
\* counter, the calls issued so far and the position of the failing call.
Machine(t, n, failAt) == [live |-> t, nextId |-> n, calls |-> << >>, failAt |-> failAt]

Fails(m) == Len(m.calls) + 1 = m.failAt

Logged(m, op, id, parentId, ok) ==
    [m EXCEPT !.calls = Append(@, [op |-> op, id |-> id, parentId |-> parentId,
                                   title |-> "", ok |-> ok])]

\* The call issued last was a create with this title.
Titled(m, title) == [m EXCEPT !.calls[Len(m.calls)].title = title]

\* Whether the call issued last succeeded.
Ok(m) == m.calls[Len(m.calls)].ok

\* chrome.bookmarks.getTree()
ChromeGetTree(m) == Logged(m, "getTree", RootId, NoParent, ~Fails(m))

\* chrome.bookmarks.getChildren(id)
ChromeGetChildren(m, id) ==
    Logged(m, "getChildren", id, NoParent, ~Fails(m) /\ id \in DOMAIN m.live)

\* chrome.bookmarks.remove(id): a bookmark or an empty folder.
ChromeRemove(m, id) ==
    LET t == m.live
        ok == /\ ~Fails(m)
              /\ id \in DOMAIN t
              /\ t[id].parentId \notin {NoParent, RootId}
              /\ t[id].children = << >>
        p == t[id].parentId
        t2 == [x \in DOMAIN t \ {id} |->
                 IF x = p THEN [t[x] EXCEPT !.children = Remove(@, id)] ELSE t[x]]
    IN  IF ok THEN Logged([m EXCEPT !.live = t2], "remove", id, NoParent, TRUE)
        ELSE Logged(m, "remove", id, NoParent, FALSE)

\* chrome.bookmarks.removeTree(id): a folder with everything below it.
ChromeRemoveTree(m, id) ==
    LET t == m.live
        ok == /\ ~Fails(m)
              /\ id \in DOMAIN t
              /\ t[id].parentId \notin {NoParent, RootId}
        p == t[id].parentId
        gone == {id} \cup Descendants(t, id)
        t2 == [x \in DOMAIN t \ gone |->
                 IF x = p THEN [t[x] EXCEPT !.children = Remove(@, id)] ELSE t[x]]
    IN  IF ok THEN Logged([m EXCEPT !.live = t2], "removeTree", id, NoParent, TRUE)
        ELSE Logged(m, "removeTree", id, NoParent, FALSE)

\* chrome.bookmarks.create({parentId, title, url}): appended to the parent.
ChromeCreate(m, parentId, title, url) ==
    LET t == m.live
        ok == /\ ~Fails(m)
              /\ parentId \in DOMAIN t
              /\ parentId # RootId
              /\ t[parentId].url = NoUrl
        id == m.nextId
        t2 == [x \in DOMAIN t \cup {id} |->
                 IF x = id THEN Node(parentId, title, url, NoType)
                 ELSE IF x = parentId THEN [t[x] EXCEPT !.children = Append(@, id)]
                 ELSE t[x]]
    IN  IF ok THEN Titled(Logged([m EXCEPT !.live = t2, !.nextId = id + 1],
                                 "create", id, parentId, TRUE), title)
        ELSE Titled(Logged(m, "create", NoParent, parentId, FALSE), title)

\* chrome.bookmarks.move(id, {parentId}): moved to the end of the parent.
ChromeMove(m, id, parentId) ==
    LET t == m.live
        ok == /\ ~Fails(m)
              /\ id \in DOMAIN t
              /\ parentId \in DOMAIN t
              /\ parentId # RootId
              /\ t[id].parentId \notin {NoParent, RootId}
              /\ t[parentId].url = NoUrl
              /\ parentId \notin ({id} \cup Descendants(t, id))
        p == t[id].parentId
        t1 == [t EXCEPT ![p].children = Remove(@, id)]
        t2 == [t1 EXCEPT ![parentId].children = Append(@, id), ![id].parentId = parentId]
    IN  IF ok THEN Logged([m EXCEPT !.live = t2], "move", id, parentId, TRUE)
        ELSE Logged(m, "move", id, parentId, FALSE)

(***************************************************************************)
(* Snapshot store and operation log (aiService.ts:439-551).                *)
(***************************************************************************)

\* getBookmarkStats of the storage service (aiService.ts:881-897): the
\* number of nodes with a URL at or below node id.
RECURSIVE CountBookmarks(_, _)
CountBookmarks(t, id) ==
    LET RECURSIVE Sum(_)
        Sum(kids) == IF kids = << >> THEN 0
                     ELSE CountBookmarks(t, Head(kids)) + Sum(Tail(kids))
    IN  (IF t[id].url # NoUrl THEN 1 ELSE 0) + Sum(t[id].children)

\* JSON.parse(JSON.stringify(treeData)): a copy that shares nothing with
\* the tree it was made from.
DeepCopy(t) == [id \in DOMAIN t |-> t[id]]

\* store.put(snapshot): an existing record with the same key is replaced.
StoreAddOverwrite(store, rec) ==
    [ok |-> TRUE, store |-> [k \in DOMAIN store \cup {rec.id} |->
                               IF k = rec.id THEN rec ELSE store[k]]]

\* store.add(record): rejected when the key is already in the store.
StoreAdd(store, rec) ==
    IF rec.id \in DOMAIN store THEN [ok |-> FALSE, store |-> store]
    ELSE [ok |-> TRUE, store |-> [k \in DOMAIN store \cup {rec.id} |->
                                    IF k = rec.id THEN rec ELSE store[k]]]

\* createSnapshot writing with store.put instead of store.add.
createSnapshotPut(store, treeData, description, t) ==
    LET snapshot == [id |-> t, timestamp |-> t,
                     bookmarkCount |-> CountBookmarks(treeData, RootId),
                     treeData |-> DeepCopy(treeData),
                     description |-> description]
        r == StoreAddOverwrite(store, snapshot)
    IN  [ok |-> r.ok, store |-> r.store, snapshot |-> snapshot]

\* createSnapshot(treeData, description) at time t  (aiService.ts:439-462)
createSnapshot(store, treeData, description, t) ==
    LET snapshot == [id |-> t, timestamp |-> t,
                     bookmarkCount |-> CountBookmarks(treeData, RootId),
                     treeData |-> DeepCopy(treeData),
                     description |-> description]
        r == StoreAdd(store, snapshot)
    IN  [ok |-> r.ok, store |-> r.store, snapshot |-> snapshot]

\* getSnapshot(id): request.result || null  (aiService.ts:491-502)
getSnapshot(store, id) == IF id \in DOMAIN store THEN store[id] ELSE Null

\* deleteSnapshot(id)  (aiService.ts:505-516)
deleteSnapshot(store, id) == [k \in DOMAIN store \ {id} |-> store[k]]

\* addOperationLog(log) at time t  (aiService.ts:534-551)
addOperationLog(store, log, t) ==
    StoreAdd(store, [id |-> t, timestamp |-> t, type |-> log.type,
                     affectedCount |-> log.affectedCount,
                     snapshotId |-> log.snapshotId])

(***************************************************************************)
(* Restore engine (aiService.ts:762-877).                                  *)
(***************************************************************************)

\* What getChildren hands back: the children of a folder as they are now.
ChildrenOf(t, id) ==
    [k \in 1..Len(t[id].children) |->
        [id |-> t[id].children[k], url |-> t[t[id].children[k]].url,
         folderType |-> t[t[id].children[k]].folderType]]

\* clearFolderContents(folderId) (aiService.ts:793-813): the try block spans
\* the whole loop, so the first call that throws ends the loop and the
\* function returns normally.  ClearLoop is the for loop over the children.
RECURSIVE clearFolderContents(_, _), ClearLoop(_, _)
clearFolderContents(m, folderId) ==
    LET m1 == ChromeGetChildren(m, folderId)
    IN  IF Ok(m1) THEN ClearLoop(m1, ChildrenOf(m1.live, folderId)) ELSE m1

ClearLoop(m, children) ==
    IF children = << >> THEN m
    ELSE LET child == Head(children)
         IN  IF child.url # NoUrl
             THEN LET m1 == ChromeRemove(m, child.id)
                  IN  IF Ok(m1) THEN ClearLoop(m1, Tail(children)) ELSE m1
             ELSE LET m1 == clearFolderContents(m, child.id)
                  IN  IF child.folderType = NoType
                      THEN LET m2 == ChromeRemoveTree(m1, child.id)
                           IN  IF Ok(m2) THEN ClearLoop(m2, Tail(children)) ELSE m2
                      ELSE ClearLoop(m1, Tail(children))

\* clearBookmarks(nodes) (aiService.ts:779-790), nodes being the array that
\* getTree returned: the root alone.
clearBookmarks(m, currentTree) ==
    LET RECURSIVE Loop(_, _)
        Loop(mm, kids) == IF kids = << >> THEN mm
                          ELSE Loop(clearFolderContents(mm, Head(kids)), Tail(kids))
    IN  Loop(m, currentTree[RootId].children)

\* createBookmarkFromNode(node, parentId) (aiService.ts:847-877): an error
\* of create is caught, logged and answered with undefined.
RECURSIVE createBookmarkFromNode(_, _, _, _), CreateLoop(_, _, _, _)
createBookmarkFromNode(m, data, nodeId, parentId) ==
    LET node == data[nodeId]
    IN  IF node.url # NoUrl
        THEN ChromeCreate(m, parentId, node.title, node.url)
        ELSE LET m1 == ChromeCreate(m, parentId, node.title, NoUrl)
             IN  IF Ok(m1)
                 THEN CreateLoop(m1, data, node.children, m1.nextId - 1)
                 ELSE m1

CreateLoop(m, data, children, parentId) ==
    IF children = << >> THEN m
    ELSE CreateLoop(createBookmarkFromNode(m, data, Head(children), parentId),
                    data, Tail(children), parentId)

\* restoreBookmarksFromSnapshot(nodes, parentId)  (aiService.ts:816-844)
RECURSIVE restoreBookmarksFromSnapshot(_, _, _, _)
restoreBookmarksFromSnapshot(m, data, nodes, parentId) ==
    IF nodes = << >> THEN m
    ELSE LET nodeId == Head(nodes)
             node == data[nodeId]
             RECURSIVE RootLoop(_, _)
             RootLoop(mm, kids) ==
                 IF kids = << >> THEN mm
                 ELSE RootLoop(restoreBookmarksFromSnapshot(mm, data, <<Head(kids)>>,
                                                            Head(kids)),
                               Tail(kids))
             m1 == IF nodeId = RootId THEN RootLoop(m, node.children)
                   ELSE IF node.folderType # NoType
                        THEN CreateLoop(m, data, node.children, nodeId)
                   ELSE IF parentId # NoParent
                        THEN createBookmarkFromNode(m, data, nodeId, parentId)
                   ELSE m
         IN  restoreBookmarksFromSnapshot(m1, data, Tail(nodes), parentId)

\* restoreSnapshot reading and clearing the tree before it looks at the
\* snapshot it loaded.
restoreSnapshotClearFirst(m, store, snapshotId) ==
    LET snapshot == getSnapshot(store, snapshotId)
        m1 == ChromeGetTree(m)
    IN  IF ~Ok(m1) THEN [ok |-> FALSE, m |-> m1, cleared |-> << >>]
        ELSE LET m2 == clearBookmarks(m1, m1.live)
             IN  IF snapshot = Null THEN [ok |-> FALSE, m |-> m2, cleared |-> << >>]
                 ELSE [ok |-> TRUE,
                       m |-> restoreBookmarksFromSnapshot(m2, snapshot.treeData,
                                                          <<RootId>>, NoParent),
                       cleared |-> m2.live]

\* restoreSnapshot(snapshotId) (aiService.ts:762-776): whether the promise
\* resolved, the machine state it leaves, and the tree as the clear step
\* left it.
restoreSnapshot(m, store, snapshotId) ==
    LET snapshot == getSnapshot(store, snapshotId)
    IN  IF snapshot = Null THEN [ok |-> FALSE, m |-> m, cleared |-> << >>]
        ELSE LET m1 == ChromeGetTree(m)
             IN  IF ~Ok(m1) THEN [ok |-> FALSE, m |-> m1, cleared |-> << >>]
                 ELSE LET m2 == clearBookmarks(m1, m1.live)
                          m3 == restoreBookmarksFromSnapshot(m2, snapshot.treeData,
                                                             <<RootId>>, NoParent)
                      IN  [ok |-> TRUE, m |-> m3, cleared |-> m2.live]

(***************************************************************************)
(* History page (HistoryPage component) and the operations around it.      *)
(***************************************************************************)

\* The record of an operation: error and success are the page's states of
\* those names as the handler leaves them.
Op(op, arg, ok, calls, cleared) ==
    [op |-> op, arg |-> arg, ok |-> ok, calls |-> calls, cleared |-> cleared,
     error |-> ~ok, success |-> FALSE]

NoOp == Op("none", 0, TRUE, << >>, << >>)

\* The trees a run starts from: the empty profile; one bookmark in the
\* bookmarks bar; a folder holding a bookmark in the bookmarks bar and a
\* bookmark in the other container; two folders of the same title, one in
\* each container, the second holding a bookmark.  The browser keeps the
\* ids 0 to 3 for the root and its containers, so the user's nodes start
\* at 4.
StartMachines ==
    LET Start(w) == Machine(EmptyTree(w), 4, 0)
        Flat(w) == ChromeCreate(Start(w), 1, "t1", "u1")
        Nested(w) == ChromeCreate(ChromeCreate(ChromeCreate(Start(w), 1, "Tech", NoUrl),
                                               4, "t1", "u1"),
                                  2, "t1", "u1")
        Twins(w) == ChromeCreate(ChromeCreate(ChromeCreate(Start(w), 1, "Tech", NoUrl),
                                              2, "Tech", NoUrl),
                                 5, "t1", "u1")
    IN  UNION {{Start(w), Flat(w), Nested(w), Twins(w)} : w \in BOOLEAN}

TInit ==
    /\ \E m \in StartMachines : live = m.live /\ nextId = m.nextId
    /\ now = 1
    /\ snapshots = << >>
    /\ logs = << >>
    /\ ops = 0
    /\ lastOp = NoOp

\* Time passes.
Tick ==
    /\ now < MaxTime
    /\ now' = now + 1
    /\ UNCHANGED <<live, nextId, snapshots, logs, ops, lastOp>>
    /\ UNCHANGED <<dvars, ovars, gvars, vvars, cvars>>

Folders(t) == {id \in DOMAIN t : id # RootId /\ t[id].url = NoUrl}

\* The user edits the bookmarks in the browser: a new folder, a new
\* bookmark, a move, a deletion.
UserEdit(m) ==
    /\ ops < MaxOps
    /\ Ok(m)
    /\ ops' = ops + 1
    /\ live' = m.live
    /\ nextId' = m.nextId
    /\ lastOp' = NoOp
    /\ UNCHANGED <<now, snapshots, logs>>
    /\ UNCHANGED <<dvars, ovars, gvars, vvars, cvars>>

UserCreateFolder ==
    \E p \in Folders(live), title \in FolderTitles :
          UserEdit(ChromeCreate(Machine(live, nextId, 0), p, title, NoUrl))

UserCreateBookmark ==
    \E p \in Folders(live), b \in BookmarkLabels :
          UserEdit(ChromeCreate(Machine(live, nextId, 0), p, b.title, b.url))

UserMove ==
    \E id \in DOMAIN live, p \in Folders(live) :
        /\ live[id].parentId # p
        /\ UserEdit(ChromeMove(Machine(live, nextId, 0), id, p))

UserRemove ==
    \E id \in DOMAIN live : UserEdit(ChromeRemoveTree(Machine(live, nextId, 0), id))

\* createSnapshot(tree, description) called with the current tree.
CreateSnapshot ==
    LET r == createSnapshot(snapshots, live, "manual", now)
    IN  /\ ops < MaxOps
        /\ ops' = ops + 1
        /\ snapshots' = r.store
        /\ lastOp' = NoOp
        /\ UNCHANGED <<live, nextId, now, logs>>
        /\ UNCHANGED <<dvars, ovars, gvars, vvars, cvars>>

\* The snapshot selected on the history page, as the page holds it.  The
\* list on the page is loaded when the page opens, and another open
\* instance of the page may have deleted the snapshot since: the selection
\* is any id a snapshot can have.  The record itself never changes while it
\* is stored, so its bookmarkCount is the stored one.
Selected(id) ==
    [id |-> id,
     bookmarkCount |-> IF id \in DOMAIN snapshots THEN snapshots[id].bookmarkCount ELSE 0]

\* The number of browser calls a restore of snapshot id issues when none
\* fails: the positions at which one call of the restore can fail.
CallCount(id) == Len(restoreSnapshot(Machine(live, nextId, 0), snapshots, id).m.calls)

\* handleRollback of the history page (part_002:110-141).
handleRollback(selectedSnapshot, failAt) ==
    LET r == restoreSnapshot(Machine(live, nextId, failAt), snapshots, selectedSnapshot.id)
        l == addOperationLog(logs, [type |-> "rollback",
                                    affectedCount |-> selectedSnapshot.bookmarkCount,
                                    snapshotId |-> selectedSnapshot.id], now)
    IN  /\ ops < MaxOps
        /\ ops' = ops + 1
        /\ live' = r.m.live
        /\ nextId' = r.m.nextId
        /\ lastOp' = [Op("rollback", selectedSnapshot.id, r.ok, r.m.calls, r.cleared)
                         EXCEPT !.error = ~(r.ok /\ l.ok), !.success = r.ok /\ l.ok]
        /\ logs' = IF r.ok /\ l.ok THEN l.store ELSE logs
        /\ UNCHANGED <<now, snapshots>>
        /\ UNCHANGED <<dvars, ovars, gvars, vvars, cvars>>

\* handleDelete of the history page (part_002:150-166).
handleDelete(selectedSnapshot) ==
    /\ ops < MaxOps
    /\ ops' = ops + 1
    /\ snapshots' = deleteSnapshot(snapshots, selectedSnapshot.id)
    /\ lastOp' = NoOp
    /\ UNCHANGED <<live, nextId, now, logs>>
    /\ UNCHANGED <<dvars, ovars, gvars, vvars, cvars>>

TNext ==
    \/ Tick
    \/ UserCreateFolder
    \/ UserCreateBookmark
    \/ UserMove
    \/ UserRemove
    \/ CreateSnapshot
    \/ \E id \in 1..MaxTime :
          \E failAt \in 0..CallCount(id) : handleRollback(Selected(id), failAt)
    \/ \E id \in 1..MaxTime : handleDelete(Selected(id))

(***************************************************************************)
(* Pruning of the snapshot store: cleanupOldSnapshots                      *)
(* (aiService.ts:519-529) over getAllSnapshots (aiService.ts:465-488).     *)
(***************************************************************************)

\* aiService.ts:523  if (snapshots.length <= 10) return;
RetainCount == 10

\* Largest number of snapshots taken in a run of the pruning.
MaxSnapshots == 12

\* A cursor over the timestamp index in direction 'next' instead of 'prev':
\* the oldest snapshot first.
RECURSIVE getAllSnapshotsOldestFirst(_)
getAllSnapshotsOldestFirst(store) ==
    IF DOMAIN store = {} THEN << >>
    ELSE LET first == CHOOSE k \in DOMAIN store :
                         \A j \in DOMAIN store :
                             \/ store[k].timestamp < store[j].timestamp
                             \/ store[k].timestamp = store[j].timestamp /\ k <= j
         IN  <<store[first]>>
             \o getAllSnapshotsOldestFirst([j \in DOMAIN store \ {first} |-> store[j]])

\* getAllSnapshots: a cursor over the timestamp index in direction 'prev',
\* the newest snapshot first, equal timestamps by descending key.
RECURSIVE getAllSnapshots(_)
getAllSnapshots(store) ==
    IF DOMAIN store = {} THEN << >>
    ELSE LET first == CHOOSE k \in DOMAIN store :
                         \A j \in DOMAIN store :
                             \/ store[k].timestamp > store[j].timestamp
                             \/ store[k].timestamp = store[j].timestamp /\ k >= j
         IN  <<store[first]>>
             \o getAllSnapshots([j \in DOMAIN store \ {first} |-> store[j]])

\* for (const snapshot of toDelete) await deleteSnapshot(snapshot.id);
RECURSIVE DeleteAll(_, _)
DeleteAll(store, toDelete) ==
    IF toDelete = << >> THEN store
    ELSE DeleteAll(deleteSnapshot(store, Head(toDelete).id), Tail(toDelete))

\* cleanupOldSnapshots  (aiService.ts:519-529)
cleanupOldSnapshots(store) ==
    LET all == getAllSnapshots(store)
    IN  IF Len(all) <= RetainCount THEN store
        ELSE DeleteAll(store, Slice(all, RetainCount, Len(all)))

\* createSnapshot while time passes: Date.now() is read once for the id and
\* once for the timestamp (aiService.ts:447-448), and the second reading may
\* be a millisecond later than the first.
PruneCreate(late) ==
    LET r == createSnapshot(snapshots, live, "manual", now)
    IN  /\ now <= MaxSnapshots
        /\ r.ok
        /\ snapshots' = IF late THEN [r.store EXCEPT ![now].timestamp = now + 1]
                        ELSE r.store
        /\ now' = now + 1
        /\ lastOp' = NoOp
        /\ UNCHANGED <<live, nextId, logs, ops>>
        /\ UNCHANGED <<dvars, ovars, gvars, vvars, cvars>>

\* A call of cleanupOldSnapshots.
Cleanup ==
    /\ snapshots' = cleanupOldSnapshots(snapshots)
    /\ lastOp' = Op("cleanup", 0, TRUE, << >>, << >>)
    /\ UNCHANGED <<live, nextId, now, logs, ops>>
    /\ UNCHANGED <<dvars, ovars, gvars, vvars, cvars>>

PNext ==
    \/ \E late \in BOOLEAN : PruneCreate(late)
    \/ Cleanup

(***************************************************************************)
(* Tag store (aiService.ts:620-757): the object store 'tags' with its      *)
(* unique index on name, written by addTagsToBookmark,                     *)
(* removeTagFromBookmark and deleteTag.  Two calls of addTagsToBookmark    *)
(* may be in progress at once; each yields at its awaits.                  *)
(***************************************************************************)

\* Largest number of calls of the tag operations in one run.
MaxTagOps == 3

\* The two calls of addTagsToBookmark that may be in progress.
Procs == {"p1", "p2"}

\* Bookmark ids that tags are put on.
TagBookmarks == {"b1", "b2"}

\* Tag names as the callers pass them.
RawNames == {" AI ", "ai", "Dev", "  "}

\* tagName.trim().toLowerCase() on the names above; a name that is trimmed
\* and in lower case already is its own normal form.
Normalize(raw) ==
    CASE raw = " AI " -> "ai"
      [] raw = "Dev" -> "dev"
      [] raw = "  " -> ""
      [] OTHER -> raw

\* The tagNames arguments: lists of one name or of two different ones.
TagNameLists ==
    {<<n>> : n \in RawNames}
    \cup UNION {{<<n, m>> : m \in RawNames \ {n}} : n \in RawNames}

\* index.get(name) on the name index: request.result || null.
getTagByName(store, name) ==
    LET hits == {k \in DOMAIN store : store[k].name = name}
    IN  IF hits = {} THEN Null
        ELSE store[CHOOSE k \in hits : \A j \in hits : k <= j]

\* store.put(tag) on a store whose name index is not unique.
PutTagNoIndex(store, tag) ==
    [ok |-> TRUE,
     store |-> [k \in DOMAIN store \cup {tag.id} |-> IF k = tag.id THEN tag ELSE store[k]]]

\* saveTag: store.put(tag).  The unique index on name (aiService.ts:418)
\* makes the request fail when another record holds the name.
PutTag(store, tag) ==
    IF \E k \in DOMAIN store : k # tag.id /\ store[k].name = tag.name
    THEN [ok |-> FALSE, store |-> store]
    ELSE [ok |-> TRUE,
          store |-> [k \in DOMAIN store \cup {tag.id} |->
                        IF k = tag.id THEN tag ELSE store[k]]]

\* deleteTag: store.delete(tagId).
deleteTag(store, tagId) == [k \in DOMAIN store \ {tagId} |-> store[k]]

\* getAllTags: a cursor over the createdAt index, newest first.
RECURSIVE getAllTags(_)
getAllTags(store) ==
    IF DOMAIN store = {} THEN << >>
    ELSE LET first == CHOOSE k \in DOMAIN store :
                         \A j \in DOMAIN store :
                             \/ store[k].createdAt > store[j].createdAt
                             \/ store[k].createdAt = store[j].createdAt /\ k >= j
         IN  <<store[first]>> \o getAllTags([j \in DOMAIN store \ {first} |-> store[j]])

\* removeTagFromBookmark that deletes the tag as soon as the bookmark was
\* on it.
removeTagDropTag(store, bookmarkId, tagId) ==
    IF tagId \notin DOMAIN store THEN store
    ELSE IF \E k \in 1..Len(store[tagId].bookmarkIds) : store[tagId].bookmarkIds[k] = bookmarkId
    THEN deleteTag(store, tagId)
    ELSE store

\* removeTagFromBookmark that always writes the tag back.
removeTagKeepEmpty(store, bookmarkId, tagId) ==
    IF tagId \notin DOMAIN store THEN store
    ELSE [store EXCEPT ![tagId].bookmarkIds = SelectSeq(@, LAMBDA id : id # bookmarkId)]

\* removeTagFromBookmark (aiService.ts:731-757): one readwrite transaction.
removeTagFromBookmark(store, bookmarkId, tagId) ==
    IF tagId \notin DOMAIN store THEN store
    ELSE LET ids == SelectSeq(store[tagId].bookmarkIds, LAMBDA id : id # bookmarkId)
         IN  IF Len(ids) = 0 THEN deleteTag(store, tagId)
             ELSE [store EXCEPT ![tagId].bookmarkIds = ids]

\* The tag store with the counter that stands for Date.now() and the
\* random suffix of a new tag's id.
TagState(store, seq) == [tags |-> store, seq |-> seq, ok |-> TRUE]

\* The part of the loop body of addTagsToBookmark after getTagByName
\* (aiService.ts:630-646), for the normalized name and the tag found.
WriteTag(st, bookmarkId, normalizedName, existingTag) ==
    IF existingTag # Null
    THEN IF \E k \in 1..Len(existingTag.bookmarkIds) : existingTag.bookmarkIds[k] = bookmarkId
         THEN st
         ELSE LET r == PutTag(st.tags, [existingTag EXCEPT
                                           !.bookmarkIds = Append(@, bookmarkId)])
              IN  [st EXCEPT !.tags = r.store, !.ok = r.ok]
    ELSE LET newTag == [id |-> st.seq, name |-> normalizedName,
                        bookmarkIds |-> <<bookmarkId>>, createdAt |-> st.seq]
             r == PutTag(st.tags, newTag)
         IN  [tags |-> r.store, seq |-> st.seq + 1, ok |-> r.ok]

\* addTagsToBookmark run from its first line to its last with nothing in
\* between (aiService.ts:620-648).
RECURSIVE addTagsToBookmark(_, _, _)
addTagsToBookmark(st, bookmarkId, tagNames) ==
    IF tagNames = << >> \/ ~st.ok THEN st
    ELSE LET normalizedName == Normalize(Head(tagNames))
         IN  IF normalizedName = "" THEN addTagsToBookmark(st, bookmarkId, Tail(tagNames))
             ELSE addTagsToBookmark(
                      WriteTag(st, bookmarkId, normalizedName,
                               getTagByName(st.tags, normalizedName)),
                      bookmarkId, Tail(tagNames))

NoArg == [bookmarkId |-> "", tagNames |-> << >>, existingTag |-> Null]

NoTagOp == [op |-> "none", bookmarkId |-> "", tagId |-> 0, found |-> FALSE]

GInit ==
    /\ tags = << >>
    /\ tagSeq = 1
    /\ addPc = [p \in Procs |-> "idle"]
    /\ addArg = [p \in Procs |-> NoArg]
    /\ tagOps = 0
    /\ lastTagOp = NoTagOp

\* A call of addTagsToBookmark(bookmarkId, tagNames) begins.
AddStart(p, bookmarkId, tagNames) ==
    /\ addPc[p] = "idle"
    /\ tagOps < MaxTagOps
    /\ tagOps' = tagOps + 1
    /\ addPc' = [addPc EXCEPT ![p] = "loop"]
    /\ addArg' = [addArg EXCEPT ![p] = [bookmarkId |-> bookmarkId, tagNames |-> tagNames,
                                        existingTag |-> Null]]
    /\ lastTagOp' = NoTagOp
    /\ UNCHANGED <<tags, tagSeq>>
    /\ UNCHANGED <<dvars, tvars, ovars, vvars, cvars>>

\* The head of the loop up to the answer of getTagByName
\* (aiService.ts:624-628); with no name left the call returns.
AddLookup(p) ==
    /\ addPc[p] = "loop"
    /\ IF addArg[p].tagNames = << >>
       THEN /\ addPc' = [addPc EXCEPT ![p] = "idle"]
            /\ addArg' = [addArg EXCEPT ![p] = NoArg]
       ELSE IF Normalize(Head(addArg[p].tagNames)) = ""
       THEN /\ addArg' = [addArg EXCEPT ![p].tagNames = Tail(@)]
            /\ UNCHANGED addPc
       ELSE /\ addArg' = [addArg EXCEPT ![p].existingTag =
                             getTagByName(tags, Normalize(Head(addArg[p].tagNames)))]
            /\ addPc' = [addPc EXCEPT ![p] = "write"]
    /\ UNCHANGED <<tags, tagSeq, tagOps, lastTagOp>>
    /\ UNCHANGED <<dvars, tvars, ovars, vvars, cvars>>

\* The rest of the loop body (aiService.ts:630-646); a rejected write ends
\* the call with the error.
AddWrite(p) ==
    LET a == addArg[p]
        st == WriteTag(TagState(tags, tagSeq), a.bookmarkId,
                       Normalize(Head(a.tagNames)), a.existingTag)
    IN  /\ addPc[p] = "write"
        /\ tags' = st.tags
        /\ tagSeq' = st.seq
        /\ IF st.ok
           THEN /\ addPc' = [addPc EXCEPT ![p] = "loop"]
                /\ addArg' = [addArg EXCEPT ![p].tagNames = Tail(@),
                                            ![p].existingTag = Null]
           ELSE /\ addPc' = [addPc EXCEPT ![p] = "idle"]
                /\ addArg' = [addArg EXCEPT ![p] = NoArg]
        /\ lastTagOp' = IF st.ok THEN lastTagOp
                        ELSE [NoTagOp EXCEPT !.op = "addRejected",
                                             !.bookmarkId = a.bookmarkId]
        /\ UNCHANGED tagOps
        /\ UNCHANGED <<dvars, tvars, ovars, vvars, cvars>>

\* A call of removeTagFromBookmark(bookmarkId, tagId).
RemoveTag(bookmarkId, tagId) ==
    /\ tagOps < MaxTagOps
    /\ tagOps' = tagOps + 1
    /\ tags' = removeTagFromBookmark(tags, bookmarkId, tagId)
    /\ lastTagOp' = [op |-> "remove", bookmarkId |-> bookmarkId, tagId |-> tagId,
                     found |-> tagId \in DOMAIN tags]
    /\ UNCHANGED <<tagSeq, addPc, addArg>>
    /\ UNCHANGED <<dvars, tvars, ovars, vvars, cvars>>

\* A call of deleteTag(tagId).
DeleteTag(tagId) ==
    /\ tagOps < MaxTagOps
    /\ tagOps' = tagOps + 1
    /\ tags' = deleteTag(tags, tagId)
    /\ lastTagOp' = [op |-> "delete", bookmarkId |-> "", tagId |-> tagId,
                     found |-> tagId \in DOMAIN tags]
    /\ UNCHANGED <<tagSeq, addPc, addArg>>
    /\ UNCHANGED <<dvars, tvars, ovars, vvars, cvars>>

\* The slot a new call of addTagsToBookmark takes: the first that is idle.
FreeProc == IF addPc["p1"] = "idle" THEN "p1" ELSE "p2"

\* Tag ids a caller may pass: those handed out so far and one never used.
TagIds == 0..(tagSeq - 1)

GNext ==
    \/ \E b \in TagBookmarks, names \in TagNameLists : AddStart(FreeProc, b, names)
    \/ \E p \in Procs : AddLookup(p)
    \/ \E p \in Procs : AddWrite(p)
    \/ \E b \in TagBookmarks, id \in TagIds : RemoveTag(b, id)
    \/ \E id \in TagIds : DeleteTag(id)

(***************************************************************************)
(* Batch-organize workflow: the BatchOrganize component                    *)
(* (BatchOrganize.tsx) over the tree helpers of the bookmarks hook.        *)
(***************************************************************************)


\* The display names of the system folders, by id and by folderType.  The
\* Chinese strings of the source are written in pinyin.
SYSTEM_FOLDER_NAMES ==
    (0 :> "Gen") @@ (1 :> "ShuQianLan") @@ (2 :> "QiTaShuQian") @@ (3 :> "YiDongShuQian")

SYSTEM_FOLDER_TYPE_NAMES ==
    ("bookmarks-bar" :> "ShuQianLan") @@ ("other" :> "QiTaShuQian")
    @@ ("mobile" :> "YiDongShuQian")

SYSTEM_FOLDER_TYPES == {"bookmarks-bar", "other", "mobile"}

\* The name returned for a folder without a title.
Unknown == "WeiZhi"

\* The ids of the subtree at id in the order a depth-first traversal
\* visits them.
RECURSIVE Preorder(_, _)
Preorder(t, id) ==
    LET RECURSIVE Kids(_)
        Kids(ks) == IF ks = << >> THEN << >>
                    ELSE Preorder(t, Head(ks)) \o Kids(Tail(ks))
    IN  <<id>> \o Kids(t[id].children)

\* flattenBookmarks without its test of node.url.
flattenBookmarksAll(t) == Preorder(t, RootId)

flattenBookmarks(t) == SelectSeq(Preorder(t, RootId), LAMBDA id : t[id].url # NoUrl)

\* isSystemFolder by the folderType marker alone.
isSystemFolderByType(t, id) ==
    \/ id = RootId
    \/ t[id].folderType \in SYSTEM_FOLDER_TYPES

isSystemFolder(t, id) ==
    \/ id = RootId
    \/ t[id].parentId = RootId
    \/ t[id].folderType \in SYSTEM_FOLDER_TYPES

getAllFolders(t) ==
    SelectSeq(Preorder(t, RootId), LAMBDA id : t[id].url = NoUrl /\ ~isSystemFolder(t, id))

\* The display name of the folder that holds the bookmark.
findParentFolderName(t, bookmarkId) ==
    LET p == t[bookmarkId].parentId
    IN  IF t[p].folderType \in DOMAIN SYSTEM_FOLDER_TYPE_NAMES
        THEN SYSTEM_FOLDER_TYPE_NAMES[t[p].folderType]
        ELSE IF p \in DOMAIN SYSTEM_FOLDER_NAMES THEN SYSTEM_FOLDER_NAMES[p]
        ELSE IF t[p].title # "" THEN t[p].title
        ELSE Unknown

\* The first node, depth first, titled as the bookmarks bar; '1' if none is.
findBookmarkBarId(t) ==
    LET hits == SelectSeq(Preorder(t, RootId),
                          LAMBDA id : t[id].title \in {"ShuQianLan", "Bookmarks Bar"})
    IN  IF hits = << >> THEN 1 ELSE hits[1]

\* const selectedBookmarks = useMemo(...)
selectedBookmarks(t, sel) == SelectSeq(flattenBookmarks(t), LAMBDA id : id \in sel)

\* const existingFolders = useMemo(...)
existingFolders(t) == getAllFolders(t)

\* The answers of the classifier in which every item has a category and a
\* flag of its own.
MixedResponses(batch) ==
    {[kind |-> "array",
      items |-> [k \in 1..Len(batch) |-> Item(batch[k], f[k][1], f[k][2])]]
        : f \in [1..Len(batch) -> Categories \X BOOLEAN]}

\* The answers to a list of groups, one for each.
RECURSIVE AnswerSeqs(_)
AnswerSeqs(bs) ==
    IF bs = << >> THEN {<< >>}
    ELSE {<<r>> \o rest : r \in Responses(Head(bs)) \cup MixedResponses(Head(bs)),
                          rest \in AnswerSeqs(Tail(bs))}

\* results.push({...}) for one bookmark of a group.  An item of the model
\* lacks both fields or neither, so a defined category comes with a
\* Boolean flag.  hasSuggestion is history, not a field of the program's
\* record: whether suggestions.get(bookmark.id) found an entry.
OrganizeResult(t, id, suggestions) ==
    LET has == id \in DOMAIN suggestions
        originalFolder == findParentFolderName(t, id)
    IN  [bookmarkId |-> id,
         hasSuggestion |-> has,
         originalFolder |-> originalFolder,
         suggestedFolder |-> IF has /\ suggestions[id].category # Undefined
                             THEN suggestions[id].category ELSE originalFolder,
         isNewCategory |-> /\ has
                           /\ suggestions[id].category # Undefined
                           /\ suggestions[id].isNewCategory]

\* The loop over the groups: a group has at most batchSize bookmarks, so
\* getOrganizeSuggestions makes one classifier call for it.
RECURSIVE ProcessBatches(_, _, _)
ProcessBatches(t, bs, answers) ==
    IF bs = << >> THEN << >>
    ELSE LET suggestions == ProcessResponse(<< >>, Head(answers))
             batch == Head(bs)
         IN  [k \in 1..Len(batch) |-> OrganizeResult(t, batch[k], suggestions)]
             \o ProcessBatches(t, Tail(bs), Tail(answers))

\* The try block of handleStartProcess entered without a check of the
\* snapshot's outcome.
StartProcessUnguarded(store, t, sel, time, dbOk, answers) ==
    LET snap == IF dbOk THEN createSnapshot(store, t, "batch", time)
                ELSE [ok |-> FALSE, store |-> store, snapshot |-> Null]
    IN  [step |-> "preview", error |-> FALSE, store |-> snap.store,
         results |-> ProcessBatches(t, MakeBatches(selectedBookmarks(t, sel), 0), answers),
         snapshotId |-> IF snap.ok THEN snap.snapshot.id ELSE 0]

\* The try block of handleStartProcess: the snapshot, then the groups
\* (BatchOrganize.tsx:107-157).  The write to the snapshot store fails
\* when the database rejects it (dbOk false) or the key is taken.
StartProcessBody(store, t, sel, time, dbOk, answers) ==
    LET snap == IF dbOk THEN createSnapshot(store, t, "batch", time)
                ELSE [ok |-> FALSE, store |-> store, snapshot |-> Null]
    IN  IF ~snap.ok
        THEN [step |-> "analyze", error |-> TRUE, store |-> store,
              results |-> << >>, snapshotId |-> 0]
        ELSE [step |-> "preview", error |-> FALSE, store |-> snap.store,
              results |-> ProcessBatches(t, MakeBatches(selectedBookmarks(t, sel), 0),
                                         answers),
              snapshotId |-> snap.snapshot.id]

\* The value of targetFolderId when no folder was found.
NoFolder == NoParent

\* The state threaded through handleApplyChanges: the machine, the Map
\* newFolders (title -> id) and whether a call has thrown.
ApplyState(m) == [m |-> m, newFolders |-> << >>, thrown |-> FALSE]

\* The first loop of handleApplyChanges creating a folder for every result
\* flagged as a new category, whether or not the name has one already.
RECURSIVE CreateFoldersEach(_, _, _)
CreateFoldersEach(a, t, rs) ==
    IF rs = << >> \/ a.thrown THEN a
    ELSE LET r == Head(rs)
             m2 == ChromeCreate(a.m, findBookmarkBarId(t), r.suggestedFolder, NoUrl)
             id == m2.calls[Len(m2.calls)].id
             nf == [x \in DOMAIN a.newFolders \cup {r.suggestedFolder} |->
                       IF x = r.suggestedFolder THEN id ELSE a.newFolders[x]]
         IN  IF ~r.isNewCategory THEN CreateFoldersEach(a, t, Tail(rs))
             ELSE IF Ok(m2)
             THEN CreateFoldersEach([m |-> m2, newFolders |-> nf, thrown |-> FALSE],
                                    t, Tail(rs))
             ELSE [a EXCEPT !.m = m2, !.thrown = TRUE]

\* The first loop of handleApplyChanges (BatchOrganize.tsx:167-179).
RECURSIVE CreateFolders(_, _, _)
CreateFolders(a, t, rs) ==
    IF rs = << >> \/ a.thrown THEN a
    ELSE LET r == Head(rs)
             m2 == ChromeCreate(a.m, findBookmarkBarId(t), r.suggestedFolder, NoUrl)
             id == m2.calls[Len(m2.calls)].id
             nf == [x \in DOMAIN a.newFolders \cup {r.suggestedFolder} |->
                       IF x = r.suggestedFolder THEN id ELSE a.newFolders[x]]
         IN  IF ~(r.isNewCategory /\ r.suggestedFolder \notin DOMAIN a.newFolders)
             THEN CreateFolders(a, t, Tail(rs))
             ELSE IF Ok(m2)
             THEN CreateFolders([m |-> m2, newFolders |-> nf, thrown |-> FALSE],
                                t, Tail(rs))
             ELSE [a EXCEPT !.m = m2, !.thrown = TRUE]

\* existingFolders.find(f => f.title === name)?.id
FindFolder(t, name) ==
    LET hits == SelectSeq(existingFolders(t), LAMBDA id : t[id].title = name)
    IN  IF hits = << >> THEN NoFolder ELSE hits[1]

\* The second loop of handleApplyChanges issuing a move for every result,
\* resolved or not.
RECURSIVE MoveBookmarksAlways(_, _, _)
MoveBookmarksAlways(a, t, rs) ==
    IF rs = << >> \/ a.thrown THEN a
    ELSE LET r == Head(rs)
             targetFolderId == IF r.isNewCategory THEN a.newFolders[r.suggestedFolder]
                               ELSE FindFolder(t, r.suggestedFolder)
             m2 == ChromeMove(a.m, r.bookmarkId, targetFolderId)
         IN  IF Ok(m2) THEN MoveBookmarksAlways([a EXCEPT !.m = m2], t, Tail(rs))
             ELSE MoveBookmarksAlways([a EXCEPT !.m = Logged(a.m, "move", r.bookmarkId,
                                                             targetFolderId, TRUE)],
                                      t, Tail(rs))

\* The second loop of handleApplyChanges (BatchOrganize.tsx:182-190).
RECURSIVE MoveBookmarks(_, _, _)
MoveBookmarks(a, t, rs) ==
    IF rs = << >> \/ a.thrown THEN a
    ELSE LET r == Head(rs)
             targetFolderId == IF r.isNewCategory THEN a.newFolders[r.suggestedFolder]
                               ELSE FindFolder(t, r.suggestedFolder)
             m2 == ChromeMove(a.m, r.bookmarkId, targetFolderId)
         IN  IF targetFolderId = NoFolder \/ targetFolderId = r.bookmarkId
             THEN MoveBookmarks(a, t, Tail(rs))
             ELSE IF Ok(m2) THEN MoveBookmarks([a EXCEPT !.m = m2], t, Tail(rs))
             ELSE [a EXCEPT !.m = m2, !.thrown = TRUE]

\* The try block of handleApplyChanges up to the refetch
\* (BatchOrganize.tsx:165-190).
ApplyBody(m, t, rs) == MoveBookmarks(CreateFolders(ApplyState(m), t, rs), t, rs)

OInit ==
    /\ currentStep = "select"
    /\ selectedIds = {}
    /\ processing = FALSE
    /\ organizeResults = << >>
    /\ error = FALSE
    /\ tree = live
    /\ runSnapshot = 0

\* A click on a bookmark of the tree: onSelectionChange with the id
\* added or taken out.
ToggleSelect(id) ==
    /\ currentStep = "select"
    /\ selectedIds' = IF id \in selectedIds THEN selectedIds \ {id}
                      ELSE selectedIds \cup {id}
    /\ UNCHANGED <<currentStep, processing, organizeResults, error, tree, runSnapshot>>
    /\ UNCHANGED tvars
    /\ UNCHANGED <<dvars, gvars, vvars, cvars>>

\* handleStartAnalyze (BatchOrganize.tsx:87-98), with valid AI settings.
handleStartAnalyze ==
    /\ currentStep = "select"
    /\ IF selectedBookmarks(tree, selectedIds) = << >>
       THEN error' = TRUE /\ UNCHANGED currentStep
       ELSE error' = FALSE /\ currentStep' = "analyze"
    /\ UNCHANGED <<selectedIds, processing, organizeResults, tree, runSnapshot>>
    /\ UNCHANGED tvars
    /\ UNCHANGED <<dvars, gvars, vvars, cvars>>

\* The back button of the analyze step: setCurrentStep('select').
BackToSelect ==
    /\ currentStep = "analyze"
    /\ currentStep' = "select"
    /\ UNCHANGED <<selectedIds, processing, organizeResults, error, tree, runSnapshot>>
    /\ UNCHANGED tvars
    /\ UNCHANGED <<dvars, gvars, vvars, cvars>>

\* handleStartProcess up to its first await (BatchOrganize.tsx:101-109): a
\* new run begins.
handleStartProcess ==
    /\ currentStep = "analyze"
    /\ ops < MaxOps
    /\ ops' = ops + 1
    /\ currentStep' = "processing"
    /\ processing' = TRUE
    /\ error' = FALSE
    /\ runSnapshot' = 0
    /\ lastOp' = NoOp
    /\ UNCHANGED <<selectedIds, organizeResults, tree>>
    /\ UNCHANGED <<live, nextId, now, snapshots, logs>>
    /\ UNCHANGED <<dvars, gvars, vvars, cvars>>

\* The rest of handleStartProcess (BatchOrganize.tsx:109-157).
ProcessSettles(dbOk, answers) ==
    LET r == StartProcessBody(snapshots, tree, selectedIds, now, dbOk, answers)
    IN  /\ currentStep = "processing"
        /\ snapshots' = r.store
        /\ runSnapshot' = r.snapshotId
        /\ currentStep' = r.step
        /\ error' = r.error
        /\ organizeResults' = IF r.step = "preview" THEN r.results ELSE organizeResults
        /\ processing' = FALSE
        /\ UNCHANGED <<selectedIds, tree>>
        /\ UNCHANGED <<live, nextId, now, logs, ops, lastOp>>
        /\ UNCHANGED <<dvars, gvars, vvars, cvars>>

\* The number of browser calls an apply issues when none fails.
ApplyCallCount == Len(ApplyBody(Machine(live, nextId, 0), tree, organizeResults).m.calls)

\* handleApplyChanges (BatchOrganize.tsx:161-201); the button that runs it
\* is rendered in the preview step only and disabled while processing.
handleApplyChanges(failAt) ==
    LET a == ApplyBody(Machine(live, nextId, failAt), tree, organizeResults)
    IN  /\ currentStep = "preview"
        /\ ~processing
        /\ ops < MaxOps
        /\ ops' = ops + 1
        /\ live' = a.m.live
        /\ nextId' = a.m.nextId
        /\ lastOp' = Op("apply", runSnapshot, ~a.thrown, a.m.calls, << >>)
        /\ error' = a.thrown
        /\ IF a.thrown THEN UNCHANGED <<tree, currentStep>>
           ELSE tree' = live' /\ currentStep' = "complete"
        /\ processing' = FALSE
        /\ UNCHANGED <<selectedIds, organizeResults, runSnapshot>>
        /\ UNCHANGED <<now, snapshots, logs>>
        /\ UNCHANGED <<dvars, gvars, vvars, cvars>>

\* handleCancel without setSelectedIds([]).
handleCancelKeepsSelection ==
    /\ currentStep \in {"preview", "complete"}
    /\ currentStep' = "select"
    /\ organizeResults' = << >>
    /\ error' = FALSE
    /\ UNCHANGED <<selectedIds, processing, tree, runSnapshot>>
    /\ UNCHANGED tvars
    /\ UNCHANGED <<dvars, gvars, vvars, cvars>>

\* handleCancel (BatchOrganize.tsx:204-209), on the buttons of the preview
\* and complete steps.
handleCancel ==
    /\ currentStep \in {"preview", "complete"}
    /\ currentStep' = "select"
    /\ selectedIds' = {}
    /\ organizeResults' = << >>
    /\ error' = FALSE
    /\ UNCHANGED <<processing, tree, runSnapshot>>
    /\ UNCHANGED tvars
    /\ UNCHANGED <<dvars, gvars, vvars, cvars>>

ONext ==
    \/ Tick
    \/ \E id \in Range(flattenBookmarks(tree)) : ToggleSelect(id)
    \/ handleStartAnalyze
    \/ BackToSelect
    \/ handleStartProcess
    \/ /\ currentStep = "processing"
       /\ \E dbOk \in BOOLEAN :
             \E answers \in AnswerSeqs(MakeBatches(selectedBookmarks(tree, selectedIds), 0)) :
                ProcessSettles(dbOk, answers)
    \/ /\ currentStep = "preview"
       /\ \E failAt \in 0..ApplyCallCount : handleApplyChanges(failAt)
    \/ handleCancel

(***************************************************************************)
(* The options page: the statistics of the bookmark tree                   *)
(* (src/unnamed/part_000:1019-1059, src/app/src/OptionsPage.tsx:119-121).  *)
(***************************************************************************)

\* traverse that counts every level below the root.
RECURSIVE traverseFromRoot(_, _, _)
traverseFromRoot(t, id, depth) ==
    LET system == isSystemFolder(t, id)
        own == IF system
               THEN [bookmarkCount |-> 0, folderCount |-> 0, maxDepth |-> 0]
               ELSE [bookmarkCount |-> IF t[id].url # NoUrl THEN 1 ELSE 0,
                     folderCount |-> IF t[id].url # NoUrl THEN 0 ELSE 1,
                     maxDepth |-> depth]
        RECURSIVE Kids(_)
        Kids(ks) ==
            IF ks = << >> THEN own
            ELSE LET a == traverseFromRoot(t, Head(ks), depth + 1)
                     b == Kids(Tail(ks))
                 IN  [bookmarkCount |-> a.bookmarkCount + b.bookmarkCount,
                      folderCount |-> a.folderCount + b.folderCount,
                      maxDepth |-> IF a.maxDepth > b.maxDepth THEN a.maxDepth
                                   ELSE b.maxDepth]
    IN  Kids(t[id].children)

\* const traverse = (node, depth) => {...}: what the subtree at id adds to
\* the counters, and the greatest depth it reaches.  A system folder counts
\* nothing and its children restart at depth 0.
RECURSIVE traverse(_, _, _)
traverse(t, id, depth) ==
    LET system == isSystemFolder(t, id)
        own == IF system
               THEN [bookmarkCount |-> 0, folderCount |-> 0, maxDepth |-> 0]
               ELSE [bookmarkCount |-> IF t[id].url # NoUrl THEN 1 ELSE 0,
                     folderCount |-> IF t[id].url # NoUrl THEN 0 ELSE 1,
                     maxDepth |-> depth]
        RECURSIVE Kids(_)
        Kids(ks) ==
            IF ks = << >> THEN own
            ELSE LET a == traverse(t, Head(ks), IF system THEN 0 ELSE depth + 1)
                     b == Kids(Tail(ks))
                 IN  [bookmarkCount |-> a.bookmarkCount + b.bookmarkCount,
                      folderCount |-> a.folderCount + b.folderCount,
                      maxDepth |-> IF a.maxDepth > b.maxDepth THEN a.maxDepth
                                   ELSE b.maxDepth]
    IN  Kids(t[id].children)

\* nodes.forEach(node => traverse(node, 0))
getBookmarkStats(t) == traverse(t, RootId, 0)

\* Before the hook has loaded the tree: tree.length is 0.
VInit ==
    optionsView = [tree |-> << >>, bookmarkStats |-> Null,
                   allFolders |-> << >>, allBookmarks |-> << >>]

\* The hook loads the tree and the options page renders.
RenderOptions ==
    /\ optionsView.tree # live
    /\ optionsView' = [tree |-> live,
                       bookmarkStats |-> getBookmarkStats(live),
                       allFolders |-> getAllFolders(live),
                       allBookmarks |-> flattenBookmarks(live)]
    /\ UNCHANGED <<dvars, tvars, ovars, gvars, cvars>>

VNext ==
    \/ UserCreateFolder
    \/ UserCreateBookmark
    \/ UserMove
    \/ UserRemove
    \/ RenderOptions

(***************************************************************************)
(* Clean Master (src/app/src/components/CleanMaster.tsx).                  *)
(***************************************************************************)

\* The bookmarks the user adds before opening Clean Master: an address
\* that differs from that of the start trees in case and a trailing slash
\* only, and another address.
CleanLabels == {[title |-> "t2", url |-> "U1/"], [title |-> "t3", url |-> "u2"]}

\* The addresses of the model.
CleanUrls == {b.url : b \in BookmarkLabels \cup CleanLabels}

MaxCleanAdds == 2

\* normalizeUrl: origin and path, without a trailing slash, in lower case.
normalizeUrl(url) == IF url = "U1/" THEN "u1" ELSE url

\* keepSelections.get(url) when the Map has no such key.
NoKeep == NoParent

\* new Map(prev).set(url, id)
MapSet(map, url, id) ==
    [x \in DOMAIN map \cup {url} |-> IF x = url THEN id ELSE map[x]]

\* next.delete(url)
MapDelete(map, url) == [x \in DOMAIN map \ {url} |-> map[x]]

EmptyMap == [x \in {} |-> NoKeep]

\* The keys of urlMap in the order of their insertion.
RECURSIVE UrlKeys(_, _, _)
UrlKeys(t, ids, seen) ==
    IF ids = << >> THEN << >>
    ELSE LET u == normalizeUrl(t[Head(ids)].url)
         IN  IF u \in seen THEN UrlKeys(t, Tail(ids), seen)
             ELSE <<u>> \o UrlKeys(t, Tail(ids), seen \cup {u})

\* The groups scanDuplicates finds: the bookmarks of a normalized url, in
\* tree order, where there are two or more.
DuplicateGroups(t) ==
    LET all == flattenBookmarks(t)
        keys == UrlKeys(t, all, {})
        groups == [k \in 1..Len(keys) |->
                     [url |-> keys[k],
                      bookmarks |-> SelectSeq(all, LAMBDA id :
                                        normalizeUrl(t[id].url) = keys[k])]]
    IN  SelectSeq(groups, LAMBDA g : Len(g.bookmarks) > 1)

\* duplicates.find(d => d.url === url)
FindGroup(groups, url) ==
    LET hits == SelectSeq(groups, LAMBDA g : g.url = url)
    IN  IF hits = << >> THEN Null ELSE hits[1]

\* for (...) await chrome.bookmarks.remove(id): the first rejected call
\* ends the loop.
RECURSIVE RemoveEach(_, _)
RemoveEach(a, ids) ==
    IF ids = << >> \/ a.thrown THEN a
    ELSE LET m2 == ChromeRemove(a.m, Head(ids))
         IN  IF Ok(m2) THEN RemoveEach([a EXCEPT !.m = m2], Tail(ids))
             ELSE [a EXCEPT !.m = m2, !.thrown = TRUE]

\* The ids deleteDuplicates hands to remove, in order: of every selected
\* group all bookmarks but the one to keep.
RECURSIVE DuplicatesToRemove(_, _, _)
DuplicatesToRemove(groups, urls, keep) ==
    IF urls = << >> THEN << >>
    ELSE LET group == FindGroup(groups, Head(urls))
             keepId == IF Head(urls) \in DOMAIN keep THEN keep[Head(urls)] ELSE NoKeep
             rest == DuplicatesToRemove(groups, Tail(urls), keep)
         IN  IF group = Null THEN rest
             ELSE SelectSeq(group.bookmarks, LAMBDA id : id # keepId) \o rest

CInit ==
    /\ cleanTree = << >>
    /\ brokenLinks = << >>
    /\ selectedBrokenIds = << >>
    /\ duplicates = << >>
    /\ selectedDuplicateUrls = << >>
    /\ keepSelections = EmptyMap

\* The user adds a bookmark to the bookmarks bar before Clean Master is
\* opened.
CleanUserAdd ==
    /\ cleanTree = << >>
    /\ ops < MaxCleanAdds
    /\ \E b \in CleanLabels :
          UserEdit(ChromeCreate(Machine(live, nextId, 0), 1, b.title, b.url))

\* The component mounts and useBookmarkTree loads the tree.
CleanOpen ==
    /\ cleanTree = << >>
    /\ cleanTree' = live
    /\ UNCHANGED <<brokenLinks, selectedBrokenIds, duplicates, selectedDuplicateUrls,
                   keepSelections>>
    /\ UNCHANGED <<dvars, tvars, ovars, gvars, vvars>>

\* scanBrokenLinks (CleanMaster.tsx:170-195): checkLinkStatus depends on
\* the address and the network: the bookmarks of one of the addresses, or
\* none, come out as broken.
scanBrokenLinks(broken) ==
    /\ cleanTree # << >>
    /\ brokenLinks' = SelectSeq(flattenBookmarks(cleanTree),
                                LAMBDA id : cleanTree[id].url \in broken)
    /\ selectedBrokenIds' = << >>
    /\ UNCHANGED <<cleanTree, duplicates, selectedDuplicateUrls, keepSelections>>
    /\ UNCHANGED <<dvars, tvars, ovars, gvars, vvars>>

\* The checkbox of a broken link (CleanMaster.tsx:446-451).
ToggleBroken(id) ==
    /\ selectedBrokenIds' = IF id \in Range(selectedBrokenIds)
                            THEN SelectSeq(selectedBrokenIds, LAMBDA x : x # id)
                            ELSE Append(selectedBrokenIds, id)
    /\ UNCHANGED <<cleanTree, brokenLinks, duplicates, selectedDuplicateUrls,
                   keepSelections>>
    /\ UNCHANGED <<dvars, tvars, ovars, gvars, vvars>>

\* scanDuplicates (CleanMaster.tsx:198-235).
scanDuplicates ==
    /\ cleanTree # << >>
    /\ duplicates' = DuplicateGroups(cleanTree)
    /\ selectedDuplicateUrls' = << >>
    /\ keepSelections' = EmptyMap
    /\ UNCHANGED <<cleanTree, brokenLinks, selectedBrokenIds>>
    /\ UNCHANGED <<dvars, tvars, ovars, gvars, vvars>>

\* The checkbox of a group (CleanMaster.tsx:549-566).
ToggleGroup(group) ==
    /\ IF group.url \notin Range(selectedDuplicateUrls)
       THEN /\ selectedDuplicateUrls' = Append(selectedDuplicateUrls, group.url)
            /\ keepSelections' = IF group.url \in DOMAIN keepSelections
                                 THEN keepSelections
                                 ELSE MapSet(keepSelections, group.url, group.bookmarks[1])
       ELSE /\ selectedDuplicateUrls' = SelectSeq(selectedDuplicateUrls,
                                                  LAMBDA u : u # group.url)
            /\ keepSelections' = MapDelete(keepSelections, group.url)
    /\ UNCHANGED <<cleanTree, brokenLinks, selectedBrokenIds, duplicates>>
    /\ UNCHANGED <<dvars, tvars, ovars, gvars, vvars>>

\* The radio buttons of a selected group (CleanMaster.tsx:586-590).
ChooseKeep(group, value) ==
    /\ group.url \in Range(selectedDuplicateUrls)
    /\ keepSelections' = MapSet(keepSelections, group.url, value)
    /\ keepSelections' # keepSelections
    /\ UNCHANGED <<cleanTree, brokenLinks, selectedBrokenIds, duplicates,
                   selectedDuplicateUrls>>
    /\ UNCHANGED <<dvars, tvars, ovars, gvars, vvars>>

\* The end of both delete handlers: the log entry, and after it the
\* messages and the refetch.
CleanFinish(op, a, count) ==
    LET l == addOperationLog(logs, [type |-> "clean", affectedCount |-> count,
                                    snapshotId |-> 0], now)
        done == ~a.thrown /\ l.ok
    IN  /\ ops < MaxOps
        /\ ops' = ops + 1
        /\ live' = a.m.live
        /\ nextId' = a.m.nextId
        /\ logs' = IF done THEN l.store ELSE logs
        /\ lastOp' = [Op(op, 0, done, a.m.calls, << >>) EXCEPT !.success = done]
        /\ cleanTree' = IF done THEN live' ELSE cleanTree
        /\ UNCHANGED <<now, snapshots>>
        /\ UNCHANGED <<dvars, ovars, gvars, vvars>>

\* deleteBrokenLinks (CleanMaster.tsx:268-296); its button is disabled
\* while nothing is ticked.
deleteBrokenLinks(failAt) ==
    LET a == RemoveEach([m |-> Machine(live, nextId, failAt), thrown |-> FALSE],
                        selectedBrokenIds)
        done == ~a.thrown /\ lastOp'.ok
    IN  /\ selectedBrokenIds # << >>
        /\ CleanFinish("deleteBrokenLinks", a, Len(selectedBrokenIds))
        /\ brokenLinks' = IF done
                          THEN SelectSeq(brokenLinks,
                                         LAMBDA id : id \notin Range(selectedBrokenIds))
                          ELSE brokenLinks
        /\ selectedBrokenIds' = IF done THEN << >> ELSE selectedBrokenIds
        /\ UNCHANGED <<duplicates, selectedDuplicateUrls, keepSelections>>

\* deleteDuplicates (CleanMaster.tsx:299-341); its button is disabled
\* while no group is ticked.
deleteDuplicates(failAt) ==
    LET ids == DuplicatesToRemove(duplicates, selectedDuplicateUrls, keepSelections)
        a == RemoveEach([m |-> Machine(live, nextId, failAt), thrown |-> FALSE], ids)
        done == ~a.thrown /\ lastOp'.ok
    IN  /\ selectedDuplicateUrls # << >>
        /\ CleanFinish("deleteDuplicates", a, Len(ids))
        /\ duplicates' = IF done
                         THEN SelectSeq(duplicates,
                                        LAMBDA g : g.url \notin Range(selectedDuplicateUrls))
                         ELSE duplicates
        /\ selectedDuplicateUrls' = IF done THEN << >> ELSE selectedDuplicateUrls
        /\ keepSelections' = IF done THEN EmptyMap ELSE keepSelections
        /\ UNCHANGED <<brokenLinks, selectedBrokenIds>>

CNext ==
    \/ CleanUserAdd
    \/ CleanOpen
    \/ Tick
    \/ \E broken \in {{}} \cup {{u} : u \in CleanUrls} : scanBrokenLinks(broken)
    \/ \E id \in Range(brokenLinks) : ToggleBroken(id)
    \/ \E failAt \in 0..Len(selectedBrokenIds) : deleteBrokenLinks(failAt)
    \/ scanDuplicates
    \/ \E k \in 1..Len(duplicates) : ToggleGroup(duplicates[k])
    \/ \E k \in 1..Len(duplicates) :
          \E value \in Range(duplicates[k].bookmarks) : ChooseKeep(duplicates[k], value)
    \/ \E failAt \in 0..Len(DuplicatesToRemove(duplicates, selectedDuplicateUrls,
                                                 keepSelections)) :
          deleteDuplicates(failAt)

(***************************************************************************)
(* Specifications: each runs one part of the program and leaves the state  *)
(* of the others as it is after construction.                              *)
(***************************************************************************)

Init == DInit /\ TInit /\ OInit /\ GInit /\ VInit /\ CInit

\* The batch dispatcher.
SpecDispatch == Init /\ [][DNext]_vars

\* Snapshot store, history page and restore engine over a tree the user edits.
SpecRestore == Init /\ [][TNext]_vars

\* The batch-organize workflow of the side panel.
SpecOrganize == Init /\ [][ONext]_vars

\* Pruning of the snapshot store.
SpecPrune == Init /\ [][PNext]_vars

\* The tag store.
TagInit == Init /\ live = EmptyTree(TRUE)

SpecTags == TagInit /\ [][GNext]_vars

\* The options page over a tree the user edits.
SpecOptions == Init /\ [][VNext]_vars

\* Clean Master over a tree the user has added bookmarks to.
CleanInit == Init /\ live[1].folderType # NoType

SpecClean == CleanInit /\ [][CNext]_vars

(***************************************************************************)
(* Claims about the batch dispatcher, checked under SpecDispatch.          *)
(***************************************************************************)

CeilDiv(n, b) == (n + b - 1) \div b

\* C7: for N bookmarks the dispatcher issues exactly ceil(N / batchSize)
\* classifier calls, one per group and one at a time (a call is issued only
\* when no earlier call is outstanding); the groups are the consecutive
\* slices of the input and their concatenation is the input.
C7_PartitionSequential ==
    /\ inflight <= 1
    /\ Len(aiCalls) - inflight = Len(progressLog)
    /\ \A k \in 1..Len(aiCalls) :
          /\ aiCalls[k] = Slice(bookmarks, (k - 1) * batchSize, k * batchSize)
          /\ aiCalls[k] # << >>
    /\ gosPc = "done" =>
          /\ Len(aiCalls) = CeilDiv(Len(bookmarks), batchSize)
          /\ Concat(aiCalls) = bookmarks
          /\ \A id \in Range(bookmarks) :
                Cardinality({k \in 1..Len(aiCalls) : id \in Range(aiCalls[k])}) = 1

\* C7 witness: a finished run over 41 bookmarks in three groups, the last
\* of which holds a single bookmark.
C7_Witness ==
    /\ gosPc = "done"
    /\ Len(bookmarks) = 2 * batchSize + 1
    /\ Len(aiCalls) = 3
    /\ Len(aiCalls[3]) = 1

\* C8: when the call of one group throws or answers with malformed data,
\* every later group is still processed, the mapping holds the entries of
\* every other group and holds no entry for a bookmark of the failed group.
C8_FailedGroupAbsent ==
    gosPc = "done" =>
        /\ Len(aiCalls) = Len(batches)
        /\ \A g \in 1..Len(batches) :
              IF g \in failedGroups
              THEN Range(batches[g]) \cap DOMAIN results = {}
              ELSE Range(batches[g]) \subseteq DOMAIN results

\* C9: the progress callback runs once after each group with the cumulative
\* number of bookmarks attempted: values strictly increase, never exceed
\* the total N, and the last one equals N.
C9_ProgressCumulative ==
    /\ \A k \in 1..Len(progressLog) :
          /\ progressLog[k][1] <= progressLog[k][2]
          /\ k > 1 => progressLog[k - 1][1] < progressLog[k][1]
    /\ (gosPc = "done" /\ progressLog # << >>) =>
          progressLog[Len(progressLog)][1] = Len(bookmarks)

(***************************************************************************)
(* Claims about the snapshot store and the restore engine, checked under   *)
(* SpecRestore.                                                            *)
(***************************************************************************)

SystemContainers == {1, 2}

\* The content of a node whatever its id: its title, its URL and the
\* contents of its children.
RECURSIVE ContentOf(_, _)
ContentOf(t, id) ==
    [title |-> t[id].title, url |-> t[id].url,
     children |-> {ContentOf(t, k) : k \in Range(t[id].children)}]

\* The user content under each system container.
UserContent(t) ==
    [c \in SystemContainers |-> {ContentOf(t, k) : k \in Range(t[c].children)}]

HasUserContent(t) == \E c \in SystemContainers : t[c].children # << >>

RolledBack == lastOp.op = "rollback"

MutationFailed(calls) ==
    \E k \in 1..Len(calls) :
        calls[k].op \in {"remove", "removeTree", "create"} /\ ~calls[k].ok

\* C1: after createSnapshot(T), any edits of the live tree and a restore of
\* that snapshot that resolved, the user content under each system
\* container (folder names, nesting, {title, url} of the bookmarks) equals
\* that of T, whatever the ids of the recreated nodes.
C1_RoundTrip ==
    (RolledBack /\ lastOp.ok) =>
        UserContent(live) = UserContent(snapshots[lastOp.arg].treeData)

\* C3: in the clear step of a restore no system container is passed to
\* remove or removeTree, and after the clear step every system container
\* exists and is empty.
C3_ClearLeavesContainersEmpty ==
    (RolledBack /\ lastOp.ok) =>
        /\ \A c \in SystemContainers :
              c \in DOMAIN lastOp.cleared /\ lastOp.cleared[c].children = << >>
        /\ \A k \in 1..Len(lastOp.calls) :
              lastOp.calls[k].op \in {"remove", "removeTree"} =>
                  lastOp.calls[k].id \notin SystemContainers \cup {RootId}

\* C4: a restore in which a remove, removeTree or create call failed does
\* not resolve as success, and the history page does not report or log the
\* rollback as succeeded.
C4_FailureReported ==
    (RolledBack /\ MutationFailed(lastOp.calls)) =>
        (~lastOp.ok /\ ~lastOp.success /\ lastOp.error)

\* C5: a restore of an id that is not in the snapshot store fails with an
\* error and issues no call against the live tree; the tree, the snapshot
\* store and the log are left as they were.
C5_MissingSnapshotFails ==
    [][(ops' # ops /\ lastOp'.op = "rollback" /\ lastOp'.arg \notin DOMAIN snapshots) =>
          /\ ~lastOp'.ok
          /\ lastOp'.error
          /\ ~lastOp'.success
          /\ lastOp'.calls = << >>
          /\ live' = live
          /\ nextId' = nextId
          /\ snapshots' = snapshots
          /\ logs' = logs]_vars

\* C5 witness: a rollback of a missing id has run while the tree held user
\* content and the store held another snapshot.
C5_Witness ==
    /\ RolledBack
    /\ lastOp.arg \notin DOMAIN snapshots
    /\ snapshots # << >>
    /\ HasUserContent(live)

\* C6: a stored snapshot never changes: whatever runs (edits of the live
\* tree, further snapshots, rollbacks, deletions), a snapshot that stays in
\* the store keeps its treeData, bookmarkCount, timestamp and description.
C6_SnapshotImmutable ==
    [][\A id \in DOMAIN snapshots \cap DOMAIN snapshots' :
          snapshots'[id] = snapshots[id]]_vars

\* C6 witness: a snapshot has been restored and the live tree, rebuilt from
\* it, is not the tree that the snapshot holds.
C6_Witness ==
    /\ RolledBack
    /\ lastOp.ok
    /\ HasUserContent(live)
    /\ snapshots[lastOp.arg].treeData # live

(***************************************************************************)
(* Claims about the batch-organize workflow, checked under SpecOrganize.   *)
(***************************************************************************)

IsMutation(c) == c.op \in {"create", "move"}

HasMutation(calls) == \E k \in 1..Len(calls) : IsMutation(calls[k])

CreateCalls(calls) == SelectSeq(calls, LAMBDA c : c.op = "create")

\* The preview and the apply belong to a run that has stored its snapshot.
SnapshotTaken ==
    /\ currentStep \in {"preview", "complete"} => runSnapshot # 0
    /\ lastOp.op = "apply" =>
          /\ lastOp.arg # 0
          /\ lastOp.arg \in DOMAIN snapshots
          /\ getSnapshot(snapshots, lastOp.arg) # Null

\* A step that changes the live tree is taken from the preview of a run
\* whose snapshot is in the store; the step that ends the processing
\* either has stored the snapshot of the tree and shows the preview, or
\* has stored nothing, shows the analyze step with an error and has issued
\* no call.
SnapshotFirst ==
    /\ live' # live =>
          /\ currentStep = "preview"
          /\ runSnapshot # 0
          /\ runSnapshot \in DOMAIN snapshots
    /\ (currentStep = "processing" /\ currentStep' # "processing") =>
          /\ live' = live
          /\ lastOp' = NoOp
          /\ \/ /\ currentStep' = "preview"
                /\ runSnapshot' \in DOMAIN snapshots' \ DOMAIN snapshots
                /\ snapshots'[runSnapshot'].treeData = tree
             \/ /\ currentStep' = "analyze"
                /\ error'
                /\ runSnapshot' = 0
                /\ snapshots' = snapshots

\* C2: in a batch-organize run no folder-creation or bookmark-move call is
\* issued against the live tree unless createSnapshot has completed
\* successfully earlier in the same run, the snapshot being stored and
\* retrievable; if createSnapshot fails the run returns to the analyze step
\* with no mutation issued.
C2_SnapshotBeforeMutation == []SnapshotTaken /\ [][SnapshotFirst]_vars

\* C2 witness: an apply has created a folder and moved a bookmark in a run
\* whose snapshot is in the store.
C2_Witness ==
    /\ currentStep = "complete"
    /\ lastOp.op = "apply"
    /\ \E k \in 1..Len(lastOp.calls) : lastOp.calls[k].op = "create" /\ lastOp.calls[k].ok
    /\ \E k \in 1..Len(lastOp.calls) : lastOp.calls[k].op = "move" /\ lastOp.calls[k].ok
    /\ runSnapshot \in DOMAIN snapshots

\* The names of the results flagged as new categories.
NewCategoryNames(rs) == {rs[k].suggestedFolder : k \in {j \in 1..Len(rs) : rs[j].isNewCategory}}

\* C10: within one apply of organize results at most one folder-creation
\* call is issued per distinct new category name, however many results
\* carry that name with isNewCategory true; a creation call is issued for
\* the names of such results only.
C10_OneFolderPerNewCategory ==
    lastOp.op = "apply" =>
        LET cs == CreateCalls(lastOp.calls)
        IN  /\ \A i, j \in 1..Len(cs) : i # j => cs[i].title # cs[j].title
            /\ currentStep \in {"preview", "complete"} =>
                  /\ {cs[k].title : k \in 1..Len(cs)} \subseteq NewCategoryNames(organizeResults)
                  /\ lastOp.ok => Len(cs) = Cardinality(NewCategoryNames(organizeResults))

\* C10 witness: an apply of two results that carry the same new category
\* name has issued one folder-creation call.
C10_Witness ==
    /\ lastOp.op = "apply"
    /\ lastOp.ok
    /\ currentStep = "complete"
    /\ Len(organizeResults) = 2
    /\ organizeResults[1].isNewCategory
    /\ organizeResults[2].isNewCategory
    /\ organizeResults[1].suggestedFolder = organizeResults[2].suggestedFolder
    /\ Len(CreateCalls(lastOp.calls)) = 1

(***************************************************************************)
(* Claims about the pruning of the snapshot store, checked under SpecPrune.*)
(***************************************************************************)

\* C11: after cleanupOldSnapshots exactly the 10 snapshots with the greatest
\* timestamps remain, each as it was stored, when more than 10 were stored;
\* the store is unchanged when 10 or fewer were stored.
C11_PruneKeepsNewest ==
    [][lastOp'.op = "cleanup" =>
          IF Cardinality(DOMAIN snapshots) <= RetainCount
          THEN snapshots' = snapshots
          ELSE /\ DOMAIN snapshots' \subseteq DOMAIN snapshots
               /\ Cardinality(DOMAIN snapshots') = RetainCount
               /\ \A k \in DOMAIN snapshots' : snapshots'[k] = snapshots[k]
               /\ \A k \in DOMAIN snapshots', d \in DOMAIN snapshots \ DOMAIN snapshots' :
                      snapshots[k].timestamp >= snapshots[d].timestamp]_vars

\* C11 witness: twelve snapshots were taken, two of them with equal
\* timestamps, and a cleanup has left ten.
C11_Witness ==
    /\ lastOp.op = "cleanup"
    /\ now = MaxSnapshots + 1
    /\ Cardinality(DOMAIN snapshots) = RetainCount
    /\ 1 \notin DOMAIN snapshots
    /\ \E j, k \in DOMAIN snapshots : j # k /\ snapshots[j].timestamp = snapshots[k].timestamp

(***************************************************************************)
(* Claims about the tag store, checked under SpecTags.                     *)
(***************************************************************************)

Without(ids, bookmarkId) == SelectSeq(ids, LAMBDA id : id # bookmarkId)

ListedTagIds(store) == {getAllTags(store)[k].id : k \in 1..Len(getAllTags(store))}

\* C12: removeTagFromBookmark(bookmarkId, tagId) takes exactly that bookmark
\* id off that tag: the tag is deleted and no longer listed by getAllTags
\* when no id is left, otherwise it stays with its other ids as they were;
\* every other tag is unchanged, and a tagId that does not exist changes
\* nothing.
C12_RemoveExactlyOne ==
    [][(tagOps' # tagOps /\ lastTagOp'.op = "remove") =>
          LET b == lastTagOp'.bookmarkId
              id == lastTagOp'.tagId
          IN  IF id \notin DOMAIN tags THEN tags' = tags
              ELSE /\ DOMAIN tags' \subseteq DOMAIN tags
                   /\ \A other \in DOMAIN tags \ {id} :
                         other \in DOMAIN tags' /\ tags'[other] = tags[other]
                   /\ IF Without(tags[id].bookmarkIds, b) = << >>
                      THEN id \notin DOMAIN tags' /\ id \notin ListedTagIds(tags')
                      ELSE /\ id \in DOMAIN tags'
                           /\ id \in ListedTagIds(tags')
                           /\ tags'[id] = [tags[id] EXCEPT
                                              !.bookmarkIds = Without(@, b)]]_vars

\* C12 witness: the bookmark b1 was taken off a tag that b2 is on as well,
\* and the tag is stored with b2 alone next to another tag.
C12_Witness ==
    /\ lastTagOp.op = "remove"
    /\ lastTagOp.bookmarkId = "b1"
    /\ lastTagOp.found
    /\ lastTagOp.tagId \in DOMAIN tags
    /\ tags[lastTagOp.tagId].bookmarkIds = <<"b2">>
    /\ Cardinality(DOMAIN tags) = 2

\* C13: whatever sequence of addTagsToBookmark, removeTagFromBookmark and
\* deleteTag has run, every stored tag has a non-empty list of bookmark ids.
C13_NoEmptyTag == \A id \in DOMAIN tags : tags[id].bookmarkIds # << >>

\* C13 witness: the last bookmark id was taken off a tag, the tag is gone
\* and another tag is stored.
C13_Witness ==
    /\ lastTagOp.op = "remove"
    /\ lastTagOp.found
    /\ lastTagOp.tagId \notin DOMAIN tags
    /\ tags # << >>

NoRepeat(ids) == \A i, j \in 1..Len(ids) : i # j => ids[i] # ids[j]

\* C14: stored names are normalized (trimmed, lower case) and never empty,
\* no two stored tags have the same normalized name, no tag lists a
\* bookmark id twice, and a call of addTagsToBookmark repeated with the
\* same arguments leaves the tag store as the first call left it.
C14_UniqueNamesIdempotent ==
    /\ \A id \in DOMAIN tags :
          /\ tags[id].name # ""
          /\ Normalize(tags[id].name) = tags[id].name
          /\ NoRepeat(tags[id].bookmarkIds)
    /\ \A i, j \in DOMAIN tags : i # j => Normalize(tags[i].name) # Normalize(tags[j].name)
    /\ \A b \in TagBookmarks, names \in TagNameLists :
          LET once == addTagsToBookmark(TagState(tags, tagSeq), b, names)
          IN  addTagsToBookmark(once, b, names) = once

\* C14 witness: both calls have ended, one of them with a write that the
\* name index rejected; the tags 'ai' and 'dev' are stored, and a further
\* call that names 'ai' in two spellings for a bookmark already on it
\* changes nothing.
C14_Witness ==
    /\ \A p \in Procs : addPc[p] = "idle"
    /\ lastTagOp.op = "addRejected"
    /\ {tags[id].name : id \in DOMAIN tags} = {"ai", "dev"}
    /\ \E b \in TagBookmarks :
          addTagsToBookmark(TagState(tags, tagSeq), b, <<" AI ", "ai">>).tags = tags

(***************************************************************************)
(* Claims about the tree functions of the options page.                    *)
(***************************************************************************)

\* The ids from the root down to id.
RECURSIVE PathTo(_, _)
PathTo(t, id) ==
    IF id = RootId THEN <<RootId>> ELSE Append(PathTo(t, t[id].parentId), id)

IndexIn(seq, x) == CHOOSE i \in 1..Len(seq) : seq[i] = x

\* a comes before b in document order: a is an ancestor of b, or below their
\* last common ancestor the branch of a is an earlier child than that of b.
DocBefore(t, a, b) ==
    LET pa == PathTo(t, a)
        pb == PathTo(t, b)
    IN  \/ Len(pa) < Len(pb) /\ SubSeq(pb, 1, Len(pa)) = pa
        \/ \E k \in 2..Min(Len(pa), Len(pb)) :
              /\ SubSeq(pa, 1, k - 1) = SubSeq(pb, 1, k - 1)
              /\ pa[k] # pb[k]
              /\ IndexIn(t[pa[k - 1]].children, pa[k])
                    < IndexIn(t[pa[k - 1]].children, pb[k])

\* C15: for every tree the page renders, flattenBookmarks returns only
\* nodes that have a URL, in pre-order, and as many of them as
\* getBookmarkStats counts in bookmarkCount.
C15_FlattenMatchesCount ==
    optionsView.tree # << >> =>
        LET t == optionsView.tree
            f == optionsView.allBookmarks
        IN  /\ \A i \in 1..Len(f) : t[f[i]].url # NoUrl
            /\ \A i, j \in 1..Len(f) : i < j => DocBefore(t, f[i], f[j])
            /\ Len(f) = optionsView.bookmarkStats.bookmarkCount

\* A rendered tree with a bookmark inside a user folder, a bookmark
\* directly in a system container, and both listed.
C15_Witness ==
    /\ optionsView.tree # << >>
    /\ Len(optionsView.allBookmarks) >= 2
    /\ \E i, j \in 1..Len(optionsView.allBookmarks) :
          LET t == optionsView.tree
              a == optionsView.allBookmarks[i]
              b == optionsView.allBookmarks[j]
          IN  /\ ~isSystemFolder(t, t[a].parentId)
              /\ isSystemFolder(t, t[b].parentId)

\* The root and the nodes directly under it.
RootLevel(t) == {id \in DOMAIN t : id = RootId \/ t[id].parentId = RootId}

\* C16: in every tree the page renders, the root and every node directly
\* under it is a system folder with or without a folderType marker, is not
\* among the folders getAllFolders returns, and is not counted in
\* folderCount, which counts the other nodes without a URL.
C16_RootLevelIsSystem ==
    optionsView.tree # << >> =>
        LET t == optionsView.tree
            listed == Range(optionsView.allFolders)
        IN  /\ \A id \in RootLevel(t) : isSystemFolder(t, id) /\ id \notin listed
            /\ optionsView.bookmarkStats.folderCount
                 = Cardinality({id \in DOMAIN t \ RootLevel(t) : t[id].url = NoUrl})

\* A rendered tree whose system containers carry no folderType marker
\* and that holds a user folder.
C16_Witness ==
    /\ optionsView.tree # << >>
    /\ \E id \in RootLevel(optionsView.tree) :
          id # RootId /\ optionsView.tree[id].folderType = NoType
    /\ optionsView.allFolders # << >>
    /\ optionsView.bookmarkStats.folderCount >= 1

\* The depth of a node below the system container that holds it: 0 for
\* the container's own children.
UserDepth(t, id) == Len(PathTo(t, id)) - 3

\* The greatest element of a non-empty set of integers.
Max(S) == CHOOSE x \in S : \A y \in S : y <= x

\* root -> bookmarks bar -> [folder{bookmark}, bookmark], nothing else.
IsExampleTree(t) ==
    /\ Len(t[1].children) = 2
    /\ LET f == t[1].children[1]
           b == t[1].children[2]
       IN  /\ t[f].url = NoUrl
           /\ Len(t[f].children) = 1
           /\ t[t[f].children[1]].url # NoUrl
           /\ t[b].url # NoUrl
    /\ Cardinality(DOMAIN t) = Cardinality(RootLevel(t)) + 3

\* C17: in every tree the page renders, maxDepth is the greatest depth of
\* a user folder or bookmark below its system container, the container's
\* own children having depth 0; and for root -> bookmarks bar ->
\* [FolderA{bookmark1}, bookmark2] the statistics are 2 bookmarks,
\* 1 folder, maxDepth 1.
C17_DepthBelowContainer ==
    optionsView.tree # << >> =>
        LET t == optionsView.tree
            st == optionsView.bookmarkStats
            users == DOMAIN t \ RootLevel(t)
        IN  /\ st.maxDepth = Max({0} \cup {UserDepth(t, id) : id \in users})
            /\ IsExampleTree(t) =>
                  st = [bookmarkCount |-> 2, folderCount |-> 1, maxDepth |-> 1]

\* The example tree has been rendered.
C17_Witness ==
    /\ optionsView.tree # << >>
    /\ IsExampleTree(optionsView.tree)

\* A rendered tree with a bookmark two folders below its container.
C17_DeepWitness ==
    /\ optionsView.tree # << >>
    /\ optionsView.bookmarkStats.maxDepth >= 2

(***************************************************************************)
(* Claims about the results of an organize run and their application.      *)
(***************************************************************************)

\* A step that ends handleStartProcess with results.
ResultsComputed == currentStep = "processing" /\ currentStep' = "preview"

\* A step of handleApplyChanges.
Applied == ops' # ops /\ lastOp'.op = "apply"

\* The results of the run that name a bookmark of the browser's tree.
LiveResults ==
    {k \in 1..Len(organizeResults) : organizeResults[k].bookmarkId \in DOMAIN live}

\* C18: a bookmark without an entry in the suggestions gets a result whose
\* suggestedFolder is the name of the folder it is in and whose
\* isNewCategory is false, and an apply leaves it in the folder it was in.
C18_NoEntryNoChange ==
    [][/\ ResultsComputed =>
            \A k \in 1..Len(organizeResults') :
                LET r == organizeResults'[k]
                IN  ~r.hasSuggestion =>
                       /\ r.suggestedFolder = findParentFolderName(tree, r.bookmarkId)
                       /\ ~r.isNewCategory
       /\ Applied =>
            \A k \in LiveResults :
                LET r == organizeResults[k]
                IN  ~r.hasSuggestion =>
                       /\ r.bookmarkId \in DOMAIN live'
                       /\ live'[r.bookmarkId].parentId = live[r.bookmarkId].parentId]_vars

\* C19: an apply issues no move for a bookmark whose parent folder already
\* is the folder the move names.  A run holds one result for a bookmark,
\* so its parent when the move is issued is its parent before the apply.
C19_NoMoveToOwnFolder ==
    [][Applied =>
          \A i \in 1..Len(lastOp'.calls) :
              LET c == lastOp'.calls[i]
              IN  (c.op = "move" /\ c.id \in DOMAIN live) =>
                      live[c.id].parentId # c.parentId]_vars

\* The name in lower case, for the names of the model.
LowerCase(name) ==
    CASE name = "Tech" -> "tech"
      [] name = "News" -> "news"
      [] OTHER -> name

\* The names of the user folders of a tree, in lower case.
UserFolderNames(t) == {LowerCase(t[id].title) : id \in Range(getAllFolders(t))}

\* C20: a result flagged isNewCategory names no user folder of the tree
\* the run used, upper and lower case taken as equal, and an apply creates
\* no folder under the name of a user folder that exists.
C20_NewCategoryIsNew ==
    [][/\ ResultsComputed =>
            \A k \in 1..Len(organizeResults') :
                organizeResults'[k].isNewCategory =>
                    LowerCase(organizeResults'[k].suggestedFolder)
                        \notin UserFolderNames(tree)
       /\ Applied =>
            \A i \in 1..Len(lastOp'.calls) :
                LET c == lastOp'.calls[i]
                IN  (c.op = "create" /\ c.ok) =>
                        LowerCase(c.title) \notin UserFolderNames(live)]_vars

(***************************************************************************)
(* Claims about Clean Master.                                              *)
(***************************************************************************)

\* A step of deleteBrokenLinks or deleteDuplicates.
Cleaned == ops' # ops /\ lastOp'.op \in {"deleteBrokenLinks", "deleteDuplicates"}

\* The step has removed a bookmark.
Removed ==
    \E i \in 1..Len(lastOp'.calls) : lastOp'.calls[i].op = "remove" /\ lastOp'.calls[i].ok

\* C21: when Clean Master deletes a bookmark, the snapshot store holds a
\* snapshot of the tree as it was before the first deletion of that
\* operation.
C21_SnapshotBeforeClean ==
    [][(Cleaned /\ Removed) =>
          \E k \in DOMAIN snapshots' : snapshots'[k].treeData = live]_vars

(***************************************************************************)
(* Claims about the calls of an apply.                                     *)
(***************************************************************************)

\* The ids of the folders that exist when call i of the apply is issued:
\* those of the browser's tree and those the apply has created before.
FoldersAt(calls, i) ==
    {id \in DOMAIN live : live[id].url = NoUrl}
    \cup {calls[j].id : j \in {x \in 1..(i - 1) : calls[x].op = "create" /\ calls[x].ok}}

IsDeletion(c) == c.op \in {"remove", "removeTree"}

\* C23: in a restore every remove and removeTree call comes before every
\* create call, and a folder is handed to removeTree only after each of its
\* children has been removed by a call of its own.
C23_DeleteBeforeCreateChildrenFirst ==
    [][(ops' # ops /\ lastOp'.op = "rollback") =>
          LET calls == lastOp'.calls
          IN  /\ \A i, j \in 1..Len(calls) :
                    (IsDeletion(calls[i]) /\ calls[j].op = "create") => i < j
              /\ \A i \in 1..Len(calls) :
                    (calls[i].op = "removeTree" /\ calls[i].ok) =>
                        \A c \in Range(live[calls[i].id].children) :
                            \E j \in 1..(i - 1) :
                                IsDeletion(calls[j]) /\ calls[j].ok /\ calls[j].id = c]_vars

\* The calls the apply of the current results issues when none fails.
PlannedCalls == ApplyBody(Machine(live, nextId, 0), tree, organizeResults).m.calls

\* The category of the result for a bookmark.
CategoryOf(bookmarkId) ==
    LET k == CHOOSE k \in 1..Len(organizeResults) :
                 organizeResults[k].bookmarkId = bookmarkId
    IN  organizeResults[k].suggestedFolder

\* C24: a create or move call that fails during an apply does not end it:
\* every planned create is still issued, every planned move is still
\* issued but those into a folder whose create failed, and what the calls
\* that succeeded have done stays.
C24_FailureIsLocal ==
    [][Applied =>
          LET calls == lastOp'.calls
              failedCreates == {calls[i].title : i \in {x \in 1..Len(calls) :
                                    calls[x].op = "create" /\ ~calls[x].ok}}
          IN  /\ \A p \in 1..Len(PlannedCalls) :
                    LET c == PlannedCalls[p]
                    IN  /\ c.op = "create" =>
                              \E i \in 1..Len(calls) :
                                  calls[i].op = "create" /\ calls[i].title = c.title
                        /\ (c.op = "move" /\ CategoryOf(c.id) \notin failedCreates) =>
                              \E i \in 1..Len(calls) :
                                  calls[i].op = "move" /\ calls[i].id = c.id
              /\ \A i \in 1..Len(calls) :
                    /\ (calls[i].op = "create" /\ calls[i].ok) => calls[i].id \in DOMAIN live'
                    /\ (calls[i].op = "move" /\ calls[i].ok) =>
                           live'[calls[i].id].parentId = calls[i].parentId]_vars

\* No two user folders of the tree have the same title.
UniqueFolderNames(t) ==
    \A a, b \in Range(getAllFolders(t)) : t[a].title = t[b].title => a = b

\* C25: when the folder names of the tree that was used for the run are
\* unique, an apply that repeats the one before it issues no create call
\* for a category whose folder that apply has created.
C25_RepeatedApplyCreatesNothing ==
    [][(Applied /\ lastOp.op = "apply" /\ UniqueFolderNames(tree)) =>
          \A i \in 1..Len(lastOp.calls), j \in 1..Len(lastOp'.calls) :
              (/\ lastOp.calls[i].op = "create" /\ lastOp.calls[i].ok
               /\ lastOp'.calls[j].op = "create")
                 => lastOp.calls[i].title # lastOp'.calls[j].title]_vars

\* The number of bookmarks the calls have moved.
MovedCount(calls) ==
    Cardinality({i \in 1..Len(calls) : calls[i].op = "move" /\ calls[i].ok})

\* C26: after an apply that has completed without a failed call the log
\* store holds a new entry of type 'organize' whose affectedCount is the
\* number of bookmarks moved and whose snapshotId is that of the snapshot
\* the run has stored.
C26_ApplyIsLogged ==
    [][(Applied /\ lastOp'.ok) =>
          \E k \in DOMAIN logs' :
              /\ k \notin DOMAIN logs
              /\ logs'[k].type = "organize"
              /\ logs'[k].affectedCount = MovedCount(lastOp'.calls)
              /\ logs'[k].snapshotId = runSnapshot]_vars

(***************************************************************************)
(* Claims about retention.                                                 *)
(***************************************************************************)

\* if (logs.length <= 50) return
LogRetainCount == 50

\* C27: the snapshot store never holds more than 10 snapshots and the log
\* store never more than 50 entries.
C27_BoundedRetention ==
    /\ Cardinality(DOMAIN snapshots) <= RetainCount
    /\ Cardinality(DOMAIN logs) <= LogRetainCount

(***************************************************************************)
(* Claims about overlapping calls of addTagsToBookmark.                    *)
(***************************************************************************)

\* Call p of addTagsToBookmark performs the write of its loop body.
AddWrites(p) == addPc[p] = "write" /\ addPc'[p] # "write"

\* C28: when a call of addTagsToBookmark writes a name that a tag made for
\* another bookmark holds by then, the write is not rejected, and after it
\* exactly one tag has the name, lists the bookmark of the call and still
\* lists every bookmark it listed before the write.
C28_OverlappingAddsMerge ==
    [][\A p \in Procs :
          LET a == addArg[p]
              name == Normalize(Head(a.tagNames))
              before == {id \in DOMAIN tags : tags[id].name = name}
              after == {id \in DOMAIN tags' : tags'[id].name = name}
          IN  (/\ AddWrites(p)
               /\ \E id \in before :
                     a.bookmarkId \notin Range(tags[id].bookmarkIds)) =>
                  /\ lastTagOp'.op # "addRejected"
                  /\ Cardinality(after) = 1
                  /\ \A id \in after :
                        /\ a.bookmarkId \in Range(tags'[id].bookmarkIds)
                        /\ id \in before =>
                              Range(tags[id].bookmarkIds) \subseteq
                                  Range(tags'[id].bookmarkIds)]_vars

(***************************************************************************)
(* Claims about the duplicate groups of Clean Master.                      *)
(***************************************************************************)

\* The groups ticked for deletion.
SelectedGroups ==
    {duplicates[k] : k \in {x \in 1..Len(duplicates) :
                               duplicates[x].url \in Range(selectedDuplicateUrls)}}

\* deleteDuplicates has run to its end without an error.
DuplicatesDeleted ==
    ops' # ops /\ lastOp'.op = "deleteDuplicates" /\ lastOp'.success

\* C29, the selection: every ticked group has a bookmark to keep recorded,
\* and that bookmark is one of the group.
C29_KeepRecorded ==
    /\ Range(selectedDuplicateUrls) \subseteq DOMAIN keepSelections
    /\ \A g \in SelectedGroups : keepSelections[g.url] \in Range(g.bookmarks)

\* C29: every ticked group has a bookmark of the group recorded to keep;
\* after deleteDuplicates has ended without error, of every ticked group
\* the kept bookmark and no other is in the tree, and every bookmark that
\* left the tree is one of a ticked group.
C29_KeepsOnePerGroup ==
    /\ []C29_KeepRecorded
    /\ [][DuplicatesDeleted =>
             /\ \A g \in SelectedGroups :
                   Range(g.bookmarks) \cap DOMAIN live' = {keepSelections[g.url]}
             /\ DOMAIN live \ DOMAIN live' \subseteq
                   UNION {Range(g.bookmarks) : g \in SelectedGroups}]_vars

(***************************************************************************)
(* Claims about the steps of the batch-organize workflow.                  *)
(***************************************************************************)

\* The moves forward, the return of a failed run to the analyze step and
\* the moves of handleCancel.
ForwardAndCancel ==
    {<<"select", "analyze">>, <<"analyze", "processing">>,
     <<"processing", "preview">>, <<"preview", "complete">>,
     <<"processing", "analyze">>, <<"preview", "select">>, <<"complete", "select">>}

\* The move of the back button of the analyze step.
BackMove == <<"analyze", "select">>

\* A call of the apply was rejected.
ApplyFailed ==
    \E i \in 1..Len(lastOp'.calls) : ~lastOp'.calls[i].ok

\* The rules of the workflow over a set of moves: a step changes along a
\* move of the set only; preview is entered with the snapshot of the run
\* written and one result for every selected bookmark; an apply starts in
\* preview; complete is entered by an apply without a rejected call; a run
\* whose snapshot was not written goes back to analyze with the error set;
\* an apply with a rejected call stays in preview with the error set;
\* leaving preview or complete for select empties selection and results.
WorkflowRules(moves) ==
    /\ currentStep' # currentStep => <<currentStep, currentStep'>> \in moves
    /\ (currentStep # "preview" /\ currentStep' = "preview") =>
          /\ runSnapshot' # 0
          /\ [k \in 1..Len(organizeResults') |-> organizeResults'[k].bookmarkId]
                = selectedBookmarks(tree, selectedIds)
    /\ Applied => currentStep = "preview"
    /\ (currentStep # "complete" /\ currentStep' = "complete") =>
          Applied /\ ~ApplyFailed
    /\ (currentStep = "processing" /\ currentStep' # "processing" /\ runSnapshot' = 0) =>
          currentStep' = "analyze" /\ error'
    /\ (Applied /\ ApplyFailed) => currentStep' = "preview" /\ error'
    /\ (currentStep \in {"preview", "complete"} /\ currentStep' = "select") =>
          selectedIds' = {} /\ organizeResults' = << >>

====
